---------------------------- MODULE Spec2Model ----------------------------
(***************************************************************************)
(* A model of pascalsalesch/hcloud: the template interpolation engine      *)
(* (src/utils/parse.mjs) and the three artifact commands                   *)
(* (create_server_config, create_service_config, create_proxy_config).     *)
(*                                                                         *)
(* A JavaScript string is a sequence of one-character strings; null is     *)
(* the value Null, which is no string.                                     *)
(***************************************************************************)
EXTENDS Integers, Sequences, FiniteSets, TLC

VARIABLES
    \* ---- parse(ctx, content, options), src/utils/parse.mjs ----
    content,          \* the template string handed to parse
    ctxReserved,      \* TRUE when the context defines the reserved key ctx
    throwOnUndefined, \* options.throwOnUndefined
    pState,           \* "init" | "evaluating" | "returned" | "threw"
    parts,            \* the segments of the template, in template order
    rendered,         \* per segment: Pending, Rejected or the rendered string
    completed,        \* indices of the dynamic segments in the order they settled
    pResult,          \* the string parse resolved to (Null before)
    pError,           \* the error parse rejected with (NoError before)
    \* ---- the commands ----
    cfg,              \* what hcloud.yml and the flags say
    files,            \* the output folder: path -> what was written
    svc,              \* create_service_config: where its promises stand
    px,               \* create_proxy_config: where it stands
    srv,              \* create_server_config: where its promises stand
    \* ---- the classes and the parsers of src/classes ----
    resolve,          \* an image string, its parse and its resolution
    portParse,        \* a port string or a proxy string and its descriptor
    registries,       \* the instances each class holds, and the last call
    listing,          \* a request to the api of the registry and its pages
    naming            \* names and the resource identifiers made of them

parseVars == <<content, ctxReserved, throwOnUndefined, pState, parts, rendered,
               completed, pResult, pError>>

unitVars == <<resolve, portParse, registries, listing, naming>>

commandVars == <<cfg, files, svc, px, srv, unitVars>>

vars == <<parseVars, commandVars>>

-----------------------------------------------------------------------------
(* Values *)

Null == <<"null">>
Pending == <<"pending">>
Rejected == <<"rejected">>
NoError == [kind |-> "none"]

IsString(v) == v \notin {Null, Pending, Rejected}

Undefined == <<"undefined">>

\* JavaScript truthiness of a string, null or undefined: null, undefined and
\* the empty string are falsy.
Truthy(v) == v # Null /\ v # Undefined /\ v # <<>>

\* Body(v) for the value v of e, with e evaluated once.
With(e, Body(_)) == CHOOSE r \in {Body(v) : v \in {e}} : TRUE

RECURSIVE Concat(_)
Concat(seqs) == IF seqs = <<>> THEN <<>> ELSE Head(seqs) \o Concat(Tail(seqs))

\* The commands before they are called.
IdleCfg == [servers |-> <<>>, services |-> <<>>, sshKeys |-> <<>>, volumes |-> <<>>,
            force |-> FALSE, dryRun |-> FALSE, existing |-> {}]
IdleSvc == [phase |-> "idle"]
IdlePx == [pc |-> "idle"]
IdleSrv == [phase |-> "idle"]
IdleResolve == [pc |-> "idle"]
IdlePortParse == [pc |-> "idle"]
IdleRegistries == [pc |-> "idle"]
IdleListing == [pc |-> "idle"]
IdleNaming == [pc |-> "idle"]
NoFiles == <<>>

StrUpTo(alphabet, n) == UNION {[1..k -> alphabet] : k \in 0..n}

SeqUpTo(S, n) == UNION {[1..k -> S] : k \in 0..n}

-----------------------------------------------------------------------------
(* String operations of JavaScript used by the code *)

Last(ss) == ss[Len(ss)]
Front(ss) == SubSeq(ss, 1, Len(ss) - 1)

\* s.includes(c) for a one-character c
includes(s, c) == \E i \in 1..Len(s) : s[i] = c

\* s.split(c) for a one-character separator c
RECURSIVE SplitAcc(_, _, _, _)
SplitAcc(s, c, i, cur) ==
    IF i > Len(s) THEN <<cur>>
    ELSE IF s[i] = c THEN <<cur>> \o SplitAcc(s, c, i + 1, <<>>)
    ELSE SplitAcc(s, c, i + 1, Append(cur, s[i]))

strSplit(s, c) == SplitAcc(s, c, 1, <<>>)

\* ss.join(sep)
RECURSIVE join(_, _)
join(ss, sep) ==
    IF ss = <<>> THEN <<>>
    ELSE IF Len(ss) = 1 THEN ss[1]
    ELSE ss[1] \o sep \o join(Tail(ss), sep)

\* The first position at which pat occurs in s, 0 when it does not.
indexOf(s, pat) ==
    LET at == {i \in 1..(Len(s) - Len(pat) + 1) : SubSeq(s, i, i + Len(pat) - 1) = pat}
    IN  IF at = {} THEN 0 ELSE CHOOSE i \in at : \A j \in at : i <= j

\* s.replace(/cc+/g, c): every run of two or more c becomes one c
RECURSIVE CollapseRuns(_, _)
CollapseRuns(s, c) ==
    IF Len(s) < 2 THEN s
    ELSE IF s[1] = c /\ s[2] = c THEN CollapseRuns(Tail(s), c)
    ELSE <<s[1]>> \o CollapseRuns(Tail(s), c)

\* while (s.startsWith(c)) s = s.slice(1)
RECURSIVE TrimStart(_, _)
TrimStart(s, c) == IF s # <<>> /\ s[1] = c THEN TrimStart(Tail(s), c) ELSE s

\* while (s.endsWith(c)) s = s.slice(0, -1)
RECURSIVE TrimEnd(_, _)
TrimEnd(s, c) == IF s # <<>> /\ Last(s) = c THEN TrimEnd(Front(s), c) ELSE s

LowerCaseLetters ==
    {"a", "b", "c", "d", "e", "f", "g", "h", "i", "j", "k", "l", "m",
     "n", "o", "p", "q", "r", "s", "t", "u", "v", "w", "x", "y", "z"}
UpperCaseLetters == {"A", "B"}
Digits == {"0", "1", "2", "3", "4", "5", "6", "7", "8", "9"}

toLowerCase(c) == IF c = "A" THEN "a" ELSE IF c = "B" THEN "b" ELSE c

-----------------------------------------------------------------------------
(* Bounds *)

\* Templates are all strings of at most MaxLen characters over TemplateChars,
\* and all concatenations of at most MaxSegs pieces of TemplatePieces.
MaxLen == 4
MaxSegs == 3

\* The backtick character (the module's lexer takes no backtick in a string).
Backtick == "BACKTICK"

TemplateChars == {"$", "{", "}", "\\", Backtick, "a"}

TemplatePieces ==
    { <<"a">>,
      <<"$", "{", "a", "}">>,
      <<"\\", "$", "{", "a", "}">>,
      <<"$", "{", "{", "}", "}">> }

Templates ==
    StrUpTo(TemplateChars, MaxLen)
        \cup {Concat(s) : s \in SeqUpTo(TemplatePieces, MaxSegs)}

\* What the evaluation of an expression may render to.
UndefinedStr == <<"u", "n", "d", "e", "f", "i", "n", "e", "d">>
EvalValues == {<<"x">>, <<"y">>, UndefinedStr}

-----------------------------------------------------------------------------
(* splitByTemplateLiterals, src/utils/parse.mjs:51-109 *)

ScanInit == [parts |-> <<>>, currentPart |-> <<>>, isDynamic |-> FALSE, depth |-> 0]

\* str.charAt(i) with i counted from 1: the empty string past the end.
charAt(str, i) == IF i >= 1 /\ i <= Len(str) THEN str[i] ELSE ""

\* parse.mjs:58, null before the first character.
previousChar(str, i) == IF i = 1 THEN "null" ELSE str[i - 1]

staticPart(value) == [type |-> "static", value |-> value]
dynamicPart(value) == [type |-> "dynamic", value |-> value]

\* parse.mjs:61-76, one character inside a dynamic segment.
DynamicStep(st, current) ==
    IF current = "{"
    THEN [st EXCEPT !.depth = st.depth + 1,
                    !.currentPart = IF st.depth + 1 > 1
                                    THEN Append(st.currentPart, current)
                                    ELSE st.currentPart]
    ELSE IF current = "}"
    THEN IF st.depth - 1 = 0
         THEN [st EXCEPT !.depth = 0,
                         !.isDynamic = FALSE,
                         !.parts = Append(st.parts, dynamicPart(st.currentPart)),
                         !.currentPart = <<>>]
         ELSE [st EXCEPT !.depth = st.depth - 1,
                         !.currentPart = Append(st.currentPart, current)]
    ELSE [st EXCEPT !.currentPart = Append(st.currentPart, current)]

\* currentPart.slice(0, -1)
DropLast(s) == IF s = <<>> THEN <<>> ELSE SubSeq(s, 1, Len(s) - 1)

\* parse.mjs:93-98, a character of static text; the segment is pushed at the
\* last character of the input.
PushIfLast(str, i, st) ==
    IF i = Len(str)
    THEN [st EXCEPT !.parts = Append(st.parts, staticPart(st.currentPart)),
                    !.currentPart = <<>>]
    ELSE st

\* A variant of EscapedDollar that keeps the backslash.
EscapedDollarKeepsBackslash(str, i, st) ==
    PushIfLast(str, i, [st EXCEPT !.currentPart = Append(st.currentPart, "$")])

\* parse.mjs:86-91, '$' before '{' and after a backslash.
EscapedDollar(str, i, st) ==
    PushIfLast(str, i, [st EXCEPT !.currentPart = Append(DropLast(st.currentPart), "$")])

\* parse.mjs:80-85, '$' before '{' and not after a backslash.
OpenDynamic(st) ==
    IF st.currentPart # <<>>
    THEN [st EXCEPT !.isDynamic = TRUE,
                    !.parts = Append(st.parts, staticPart(st.currentPart)),
                    !.currentPart = <<>>]
    ELSE [st EXCEPT !.isDynamic = TRUE]

\* parse.mjs:77-100, one character outside a dynamic segment.
StaticStep(str, i, st) ==
    LET current == charAt(str, i)
        next == charAt(str, i + 1)
    IN  IF current = "$" /\ next = "{"
        THEN IF previousChar(str, i) # "\\"
             THEN OpenDynamic(st)
             ELSE EscapedDollar(str, i, st)
        ELSE PushIfLast(str, i, [st EXCEPT !.currentPart = Append(st.currentPart, current)])

\* parse.mjs:57-101, the loop from character i on.
RECURSIVE Scan(_, _, _)
Scan(str, i, st) ==
    IF i > Len(str) THEN st
    ELSE With(IF st.isDynamic THEN DynamicStep(st, charAt(str, i))
              ELSE StaticStep(str, i, st),
              LAMBDA next : Scan(str, i + 1, next))

\* parse.mjs:103-106, what is thrown at the end of the input.
ScanError(st) ==
    IF st.currentPart # <<>>
    THEN IF st.depth > 0
         THEN [kind |-> "missing", depth |-> st.depth]
         ELSE [kind |-> "unknown"]
    ELSE NoError

splitByTemplateLiterals(str) ==
    LET st == Scan(str, 1, ScanInit)
    IN  [parts |-> st.parts, error |-> ScanError(st)]

-----------------------------------------------------------------------------
(* parse and evaluate, src/utils/parse.mjs:15-42 *)

\* parse.mjs:19, every backtick of a static segment gets a backslash before it.
RECURSIVE EscapeBackticks(_)
EscapeBackticks(s) ==
    IF s = <<>> THEN <<>>
    ELSE (IF Head(s) = Backtick THEN <<"\\", Backtick>> ELSE <<Head(s)>>) \o EscapeBackticks(Tail(s))

DynamicIndices(ps) == {i \in 1..Len(ps) : ps[i].type = "dynamic"}

\* The promises handed to Promise.all: a static segment is a value at once,
\* a dynamic one is the pending promise of evaluate.
StartRender(ps) ==
    [i \in 1..Len(ps) |->
        IF ps[i].type = "static" THEN EscapeBackticks(ps[i].value) ELSE Pending]

\* A variant of JoinParts that joins the dynamic segments as they settled.
JoinInCompletionOrder(r, order) ==
    LET dyn == {i \in 1..Len(r) : i \in {order[k] : k \in 1..Len(order)}}
        \* the k-th dynamic position of the template takes the k-th settled value
        rank(i) == Cardinality({j \in dyn : j <= i})
    IN  Concat([i \in 1..Len(r) |-> IF i \in dyn THEN r[order[rank(i)]] ELSE r[i]])

\* parse.mjs:23, parts.join('') over the array Promise.all resolved to.
JoinParts(r, order) == Concat(r)

\* parse.mjs:15-22: the reserved key, the split, and the start of every evaluation.
ParseCall ==
    /\ pState = "init"
    /\ LET split == splitByTemplateLiterals(content)
       IN  IF ctxReserved
           THEN /\ pState' = "threw"
                /\ pError' = [kind |-> "reserved"]
                /\ UNCHANGED <<parts, rendered, pResult>>
           ELSE IF split.error # NoError
           THEN /\ pState' = "threw"
                /\ pError' = split.error
                /\ UNCHANGED <<parts, rendered, pResult>>
           ELSE /\ parts' = split.parts
                /\ rendered' = StartRender(split.parts)
                /\ pState' = "evaluating"
                /\ UNCHANGED <<pError, pResult>>
    /\ UNCHANGED <<content, ctxReserved, throwOnUndefined, completed, commandVars>>

\* parse.mjs:35-42, evaluate: the expression renders to v, which is an error
\* when it is 'undefined' and throwOnUndefined is set. Evaluations go on after
\* parse has rejected: nothing cancels them.
EvaluateResolves(i, v) ==
    /\ pState \in {"evaluating", "threw"}
    /\ i \in DynamicIndices(parts)
    /\ rendered[i] = Pending
    /\ rendered' = [rendered EXCEPT ![i] =
                       IF throwOnUndefined /\ v = UndefinedStr THEN Rejected ELSE v]
    /\ completed' = Append(completed, i)
    /\ UNCHANGED <<content, ctxReserved, throwOnUndefined, pState, parts, pResult, pError,
                   commandVars>>

\* parse.mjs:38-39, the expression itself throws.
EvaluateThrows(i) ==
    /\ pState \in {"evaluating", "threw"}
    /\ i \in DynamicIndices(parts)
    /\ rendered[i] = Pending
    /\ rendered' = [rendered EXCEPT ![i] = Rejected]
    /\ completed' = Append(completed, i)
    /\ UNCHANGED <<content, ctxReserved, throwOnUndefined, pState, parts, pResult, pError,
                   commandVars>>

\* parse.mjs:18,23: Promise.all has resolved, the segments are joined.
ParseReturns ==
    /\ pState = "evaluating"
    /\ \A i \in 1..Len(rendered) : IsString(rendered[i])
    /\ pResult' = JoinParts(rendered, completed)
    /\ pState' = "returned"
    /\ UNCHANGED <<content, ctxReserved, throwOnUndefined, parts, rendered, completed, pError,
                   commandVars>>

\* parse.mjs:18: Promise.all rejects as soon as one evaluation has rejected.
ParseThrows ==
    /\ pState = "evaluating"
    /\ \E i \in 1..Len(rendered) : rendered[i] = Rejected
    /\ pError' = [kind |-> "evaluation"]
    /\ pState' = "threw"
    /\ UNCHANGED <<content, ctxReserved, throwOnUndefined, parts, rendered, completed, pResult,
                   commandVars>>

ParseInit ==
    /\ content \in Templates
    /\ ctxReserved \in BOOLEAN
    /\ throwOnUndefined \in BOOLEAN
    /\ pState = "init"
    /\ parts = <<>>
    /\ rendered = <<>>
    /\ completed = <<>>
    /\ pResult = Null
    /\ pError = NoError
    /\ resolve = IdleResolve
    /\ portParse = IdlePortParse
    /\ registries = IdleRegistries
    /\ listing = IdleListing
    /\ naming = IdleNaming
    /\ cfg = IdleCfg
    /\ files = NoFiles
    /\ svc = IdleSvc
    /\ px = IdlePx
    /\ srv = IdleSrv

ParseNext ==
    \/ ParseCall
    \/ \E i \in 1..Len(parts), v \in EvalValues : EvaluateResolves(i, v)
    \/ \E i \in 1..Len(parts) : EvaluateThrows(i)
    \/ ParseReturns
    \/ ParseThrows

SpecParse == ParseInit /\ [][ParseNext]_vars

-----------------------------------------------------------------------------
(* Properties of the interpolation engine *)

IsDollarBrace(s, i) == i >= 1 /\ i < Len(s) /\ s[i] = "$" /\ s[i + 1] = "{"
HasDollarBrace(s) == \E i \in 1..Len(s) : IsDollarBrace(s, i)
IsEscapedAt(s, i) == IsDollarBrace(s, i) /\ i > 1 /\ s[i - 1] = "\\"
IsUnescapedAt(s, i) == IsDollarBrace(s, i) /\ ~(i > 1 /\ s[i - 1] = "\\")

\* The position of the first unescaped "${" of s, Len(s) + 1 when it has none.
FirstOpen(s) ==
    IF \E i \in 1..Len(s) : IsUnescapedAt(s, i)
    THEN CHOOSE i \in 1..Len(s) :
            IsUnescapedAt(s, i) /\ \A j \in 1..(i - 1) : ~IsUnescapedAt(s, j)
    ELSE Len(s) + 1

\* s from position i on, without the backslash in front of each "${".
RECURSIVE RemoveEscapesFrom(_, _)
RemoveEscapesFrom(s, i) ==
    IF i > Len(s) THEN <<>>
    ELSE IF IsEscapedAt(s, i + 1) THEN RemoveEscapesFrom(s, i + 1)
    ELSE <<s[i]>> \o RemoveEscapesFrom(s, i + 1)

RemoveEscapes(s) == RemoveEscapesFrom(s, 1)

EndOfInputState == Scan(content, 1, ScanInit)

\* C7 (as claimed): for a template that contains no "${", parse returns the
\* template unchanged, character for character.
C7_RoundTripWithoutDollarBrace ==
    (pState \in {"returned", "threw"} /\ ~ctxReserved /\ ~HasDollarBrace(content))
        => (pState = "returned" /\ pResult = content)

\* C8 (as claimed): when the end of the input is reached inside a dynamic
\* segment, parse throws the error that states the brace depth at the end of
\* the input as the number of missing closing braces, and returns no result.
C8_UnterminatedThrowsMissingDepth ==
    (pState \in {"returned", "threw"} /\ ~ctxReserved /\ EndOfInputState.isDynamic)
        => (pState = "threw"
            /\ pError = [kind |-> "missing", depth |-> EndOfInputState.depth])

EscapedExample == <<"\\", "$", "{", "a", "}">>

\* C9: a "${" that follows a backslash opens no dynamic segment. The text
\* before the first unescaped "${" is the first segment, a static one, with
\* the backslash before each "${" removed; the same holds for the text after
\* a closed dynamic segment; a template without unescaped "${" has no dynamic
\* segment, so nothing of it is evaluated; and \${a} renders as ${a}.
C9_EscapedDollarStaysStatic ==
    pState \in {"evaluating", "returned"} =>
        LET n == FirstOpen(content)
            prefix == SubSeq(content, 1, n - 1)
            tail == SubSeq(content, 5, Len(content))
        IN  /\ n > 1 => (Len(parts) >= 1 /\ parts[1] = staticPart(RemoveEscapes(prefix)))
            /\ n = Len(content) + 1 => (DynamicIndices(parts) = {} /\ completed = <<>>)
            /\ (/\ Len(content) > 4
                /\ SubSeq(content, 1, 4) = <<"$", "{", "a", "}">>
                /\ FirstOpen(tail) = Len(tail) + 1)
                   => parts = <<dynamicPart(<<"a">>), staticPart(RemoveEscapes(tail))>>
            /\ (content = EscapedExample /\ pState = "returned")
                   => pResult = <<"$", "{", "a", "}">>

\* C9, reached: \${a} has been rendered.
C9_Witness == content = EscapedExample /\ pState = "returned"

\* C10: parse returns only after every dynamic segment has been evaluated, and
\* its result is the rendered segments joined in template order, whatever the
\* order in which the evaluations settled.
C10_JoinedInTemplateOrder ==
    pState = "returned" =>
        /\ \A i \in 1..Len(parts) : IsString(rendered[i])
        /\ {completed[k] : k \in 1..Len(completed)} = DynamicIndices(parts)
        /\ pResult = Concat([i \in 1..Len(parts) |->
                                IF parts[i].type = "static"
                                THEN EscapeBackticks(parts[i].value)
                                ELSE rendered[i]])

\* C10, reached: two evaluations with different results settled against the
\* template order, and parse has returned.
C10_Witness ==
    /\ pState = "returned"
    /\ \E k \in 1..(Len(completed) - 1) :
          /\ completed[k] > completed[k + 1]
          /\ rendered[completed[k]] # rendered[completed[k + 1]]

-----------------------------------------------------------------------------
(* Image references, src/classes/Service.mjs:242-380 *)

GHCR == <<"g", "h", "c", "r", ".", "i", "o">>
Star == <<"*">>

endsWith(s, suffix) ==
    Len(s) >= Len(suffix) /\ SubSeq(s, Len(s) - Len(suffix) + 1, Len(s)) = suffix

\* imageString.replace(/[*:]/g, '')
RECURSIVE WithoutStarsAndColons(_)
WithoutStarsAndColons(s) ==
    IF s = <<>> THEN <<>>
    ELSE (IF Head(s) \in {"*", ":"} THEN <<>> ELSE <<Head(s)>>)
             \o WithoutStarsAndColons(Tail(s))

\* Service.mjs:362-376: s.split(c), pop the last field, join the rest again.
PopField(s, c) ==
    IF includes(s, c)
    THEN With(strSplit(s, c), LAMBDA f : [field |-> Last(f), rest |-> join(Front(f), <<c>>)])
    ELSE [field |-> Star, rest |-> s]

\* Service.mjs:355-380. error is "empty" for a string of only '*' and ':'.
parseImageString(imageString) ==
    With(PopField(imageString, ":"), LAMBDA t :
    With(PopField(t.rest, "/"), LAMBDA r :
    With(PopField(r.rest, "/"), LAMBDA o :
        [error |-> IF WithoutStarsAndColons(imageString) = <<>> THEN "empty" ELSE "none",
         url |-> IF o.rest # <<>> THEN o.rest ELSE GHCR,
         org |-> o.field,
         repo |-> r.field,
         tag |-> t.field])))

\* new RegExp('^' + pattern.replace(/\*/g, '.*') + '$'): '*' is any text and,
\* as in every regular expression, '.' is any one character.
RECURSIVE GlobMatch(_, _)
GlobMatch(pattern, s) ==
    IF pattern = <<>> THEN s = <<>>
    ELSE IF Head(pattern) = "*"
         THEN \E k \in 0..Len(s) : GlobMatch(Tail(pattern), SubSeq(s, k + 1, Len(s)))
         ELSE /\ s # <<>>
              /\ (Head(pattern) = "." \/ Head(pattern) = Head(s))
              /\ GlobMatch(Tail(pattern), Tail(s))

RECURSIVE SelectMatching(_, _)
SelectMatching(names, pattern) ==
    IF names = <<>> THEN <<>>
    ELSE (IF GlobMatch(pattern, Head(names)) THEN <<Head(names)>> ELSE <<>>)
             \o SelectMatching(Tail(names), pattern)

\* The package registry as the resolver sees it: whether GITHUB_TOKEN is set,
\* the package names and the tags its listing calls return.
Resolved(images, calls) == [error |-> "none", images |-> images, calls |-> calls]
ResolveError(kind, calls) == [error |-> kind, images |-> <<>>, calls |-> calls]

\* Service.mjs:308-317, getAllTags: the registry must be ghcr.io and the
\* token set; two calls (the owner, the versions).
getAllTags(image, reg) ==
    IF ~endsWith(image.url, GHCR) THEN ResolveError("cannot get all tags", 0)
    ELSE IF ~reg.token THEN ResolveError("missing GITHUB_TOKEN", 0)
    ELSE Resolved(reg.tags, 2)

\* Service.mjs:324-336, pushMatchingImages.
pushMatchingImages(image, repo, reg) ==
    IF ~includes(image.tag, "*")
    THEN Resolved(<<[url |-> image.url, org |-> image.org, repo |-> repo, tag |-> image.tag]>>, 0)
    ELSE With(getAllTags(image, reg), LAMBDA tags :
             IF tags.error # "none" THEN tags
             ELSE With(SelectMatching(tags.images, image.tag), LAMBDA matching :
                      Resolved([k \in 1..Len(matching) |->
                                   [url |-> image.url, org |-> image.org,
                                    repo |-> repo, tag |-> matching[k]]],
                               tags.calls)))

\* Service.mjs:341, one pushMatchingImages after the other, until one throws.
RECURSIVE PushAll(_, _, _)
PushAll(image, repos, reg) ==
    IF repos = <<>> THEN Resolved(<<>>, 0)
    ELSE With(pushMatchingImages(image, Head(repos), reg), LAMBDA first :
             IF first.error # "none" THEN first
             ELSE With(PushAll(image, Tail(repos), reg), LAMBDA others :
                      IF others.error # "none"
                      THEN ResolveError(others.error, first.calls + others.calls)
                      ELSE Resolved(first.images \o others.images,
                                    first.calls + others.calls)))

\* Service.mjs:299, a name is pushed unless it is in the list already.
RECURSIVE Dedupe(_)
Dedupe(names) ==
    IF names = <<>> THEN <<>>
    ELSE With(Dedupe(Front(names)), LAMBDA front :
             IF \E k \in 1..Len(front) : front[k] = Last(names)
             THEN front ELSE Append(front, Last(names)))

\* Service.mjs:290-301, getAllPackages: two calls (the owner, the packages).
getAllPackages(image, reg) ==
    IF ~endsWith(image.url, GHCR) THEN ResolveError("cannot get all packages", 0)
    ELSE IF ~reg.token THEN ResolveError("missing GITHUB_TOKEN", 0)
    ELSE Resolved(Dedupe(reg.packages), 2)

\* Service.mjs:242-347, getImageFlatMap.
getImageFlatMap(image, reg) ==
    IF includes(image.repo, "*")
    THEN IF ~endsWith(image.url, GHCR) THEN ResolveError("cannot get all repositories", 0)
         ELSE With(getAllPackages(image, reg), LAMBDA packages :
                  IF packages.error # "none" THEN packages
                  ELSE With(PushAll(image, SelectMatching(packages.images, image.repo), reg),
                            LAMBDA pushed :
                                [pushed EXCEPT !.calls = pushed.calls + packages.calls]))
    ELSE pushMatchingImages(image, image.repo, reg)

-----------------------------------------------------------------------------
(* Port descriptors, src/classes/Service.mjs:390-516 *)

\* The details of a descriptor that no proxy string has touched: every
\* property reads as undefined.
NoDetails ==
    [defined |-> FALSE, schema |-> Undefined, host |-> Undefined, hostPort |-> Undefined,
     proxyPort |-> Undefined, containerPort |-> Undefined, path |-> Undefined]

PortDescriptor(proxyPort, host, container, details) ==
    [proxyPort |-> proxyPort, host |-> host, container |-> container, details |-> details]

\* fields[k], undefined past the end of the array
FieldAt(fields, k) == IF k <= Len(fields) THEN fields[k] ELSE Undefined

\* Taking the leftmost field as container port.
StaticPortContainerFirst(portConfig) ==
    With(strSplit(portConfig, ":"), LAMBDA f :
        PortDescriptor(f[1], IF Len(f) = 3 THEN f[2] ELSE Null, f[1], NoDetails))

\* Without the case of equal first and second field.
StaticPortKeepsProxy(portConfig) ==
    With(strSplit(portConfig, ":"), LAMBDA f :
        IF Len(f) = 3 THEN PortDescriptor(f[1], f[2], f[3], NoDetails)
        ELSE IF Len(f) = 2 THEN PortDescriptor(f[1], Null, f[2], NoDetails)
        ELSE PortDescriptor(f[1], Null, f[1], NoDetails))

\* Service.mjs:396-410, one entry of service.ports.
StaticPort(portConfig) ==
    With(strSplit(portConfig, ":"), LAMBDA f :
        IF Len(f) = 3
        THEN IF f[1] = f[2]
             THEN PortDescriptor(Null, f[2], f[3], NoDetails)
             ELSE PortDescriptor(f[1], f[2], f[3], NoDetails)
        ELSE IF Len(f) = 2
        THEN PortDescriptor(f[1], Null, f[2], NoDetails)
        ELSE PortDescriptor(f[1], Null, f[1], NoDetails))

\* Service.mjs:396, more than three fields.
StaticPortInvalid(portConfig) == Len(strSplit(portConfig, ":")) > 3

SchemaSeparator == <<":", "/", "/">>

\* Service.mjs:445-451: the text before the first "://" is the schema.
SplitSchema(proxyString) ==
    With(indexOf(proxyString, SchemaSeparator), LAMBDA at :
        IF at > 0
        THEN [schema |-> SubSeq(proxyString, 1, at - 1),
              rest |-> SubSeq(proxyString, at + Len(SchemaSeparator), Len(proxyString))]
        ELSE [schema |-> Null, rest |-> proxyString])

\* Service.mjs:453-459: the text from the first "/" on is the path.
SplitPath(s) ==
    IF includes(s, "/")
    THEN With(strSplit(s, "/"), LAMBDA pathArr :
             [rest |-> pathArr[1], path |-> <<"/">> \o join(Tail(pathArr), <<"/">>)])
    ELSE [rest |-> s, path |-> <<"/">>]

\* Service.mjs:461-481: the host and the one, two or three ports after it.
SplitHost(s) ==
    IF includes(s, ":")
    THEN With(strSplit(s, ":"), LAMBDA f :
         With(Tail(f), LAMBDA hostArr :
             [host |-> f[1],
              proxyPort |-> hostArr[1],
              hostPort |-> IF Len(hostArr) > 2 THEN hostArr[2]
                           ELSE IF Len(hostArr) = 2 THEN Null ELSE Undefined,
              containerPort |-> IF Len(hostArr) > 2 THEN hostArr[3]
                                ELSE IF Len(hostArr) = 2 THEN hostArr[2] ELSE hostArr[1]]))
    ELSE [host |-> s, proxyPort |-> <<"8", "0">>, hostPort |-> Null, containerPort |-> Null]

\* Service.mjs:442-484, parseProxyString.
parseProxyString(proxyString) ==
    With(SplitSchema(proxyString), LAMBDA a :
    With(SplitPath(a.rest), LAMBDA b :
    With(SplitHost(b.rest), LAMBDA c :
        [defined |-> TRUE, schema |-> a.schema, host |-> c.host, hostPort |-> c.hostPort,
         proxyPort |-> c.proxyPort, containerPort |-> c.containerPort, path |-> b.path])))

\* parse of a template without dynamic segments: the static segments, joined.
parseStatic(str) == JoinParts(StartRender(splitByTemplateLiterals(str).parts), <<>>)

\* ports.find(port => port.container === containerPort): the first index, 0 for none
FindContainer(ports, containerPort) ==
    LET at == {k \in 1..Len(ports) : ports[k].container = containerPort}
    IN  IF at = {} THEN 0 ELSE CHOOSE k \in at : \A j \in at : k <= j

\* Taking host and proxy port of the proxy string whatever they are.
ApplyProxyOverwriting(ports, proxyString) ==
    With(parseProxyString(parseStatic(proxyString)), LAMBDA details :
    With(FindContainer(ports, details.containerPort), LAMBDA k :
        IF k > 0
        THEN [ports EXCEPT ![k] = PortDescriptor(details.proxyPort, details.hostPort,
                                                 ports[k].container, details)]
        ELSE Append(ports, PortDescriptor(details.proxyPort, details.hostPort,
                                          details.containerPort, details))))

\* Service.mjs:420-428, one proxy string applied to the descriptors so far.
ApplyProxy(ports, proxyString) ==
    With(parseProxyString(parseStatic(proxyString)), LAMBDA details :
    With(FindContainer(ports, details.containerPort), LAMBDA k :
        IF k > 0
        THEN [ports EXCEPT ![k] =
                 [host |-> IF Truthy(details.hostPort) THEN details.hostPort ELSE ports[k].host,
                  proxyPort |-> IF Truthy(details.proxyPort) THEN details.proxyPort
                                ELSE ports[k].proxyPort,
                  container |-> ports[k].container,
                  details |-> details]]
        ELSE Append(ports, PortDescriptor(details.proxyPort, details.hostPort,
                                          details.containerPort, details))))

RECURSIVE ApplyProxies(_, _)
ApplyProxies(ports, proxies) ==
    IF proxies = <<>> THEN ports
    ELSE With(ApplyProxy(ports, Head(proxies)), LAMBDA next :
             ApplyProxies(next, Tail(proxies)))

\* Service.mjs:507-514, one descriptor per port the container exposes.
getImagePortsFromContainer(exposed) ==
    [k \in 1..Len(exposed) |-> PortDescriptor(exposed[k], Null, exposed[k], NoDetails)]

\* Service.mjs:390-435, getImagePorts. exposed are the ports docker inspect
\* reports for the image.
getImagePorts(service, exposed) ==
    IF \E k \in 1..Len(service.ports) : StaticPortInvalid(service.ports[k])
    THEN [error |-> "invalid port configuration", ports |-> <<>>]
    ELSE With([k \in 1..Len(service.ports) |-> StaticPort(service.ports[k])], LAMBDA static :
         With(ApplyProxies(static, service.proxies), LAMBDA ports :
             IF ports # <<>> THEN [error |-> "none", ports |-> ports]
             ELSE [error |-> "none", ports |-> getImagePortsFromContainer(exposed)]))

-----------------------------------------------------------------------------
(* Service.getImages, src/classes/Service.mjs:192-225 *)

\* s.replace(/[^a-z0-9-]/g, '-')
RECURSIVE DashOthers(_)
DashOthers(s) ==
    IF s = <<>> THEN <<>>
    ELSE <<IF Head(s) \in LowerCaseLetters \cup Digits \cup {"-"} THEN Head(s) ELSE "-">>
             \o DashOthers(Tail(s))

\* Service.mjs:207, image.name
ImageName(serviceName, image) ==
    CollapseRuns(DashOthers(join(<<serviceName, image.url, image.org, image.repo, image.tag>>,
                                 <<"-">>)), "-")

\* Service.mjs:209, image.image
ImageUrl(image) == image.url \o <<"/">> \o image.org \o <<"/">> \o image.repo \o <<":">> \o image.tag

\* Service.mjs:214, image.portsString, one entry per descriptor
PortsString(ports) ==
    [k \in 1..Len(ports) |->
        IF Truthy(ports[k].host) THEN ports[k].host \o <<":">> \o ports[k].container
        ELSE ports[k].container]

ImagesResult(error, images) == [error |-> error, images |-> images]

\* Service.mjs:202-221, the images one image string resolved to, each with its
\* name and its port descriptors.
ImagesOfResolved(service, resolved, exposed) ==
    IF resolved = <<>> THEN ImagesResult("none", <<>>)
    ELSE With(getImagePorts(service, exposed), LAMBDA ports :
             IF ports.error # "none" THEN ImagesResult(ports.error, <<>>)
             ELSE IF ports.ports = <<>> THEN ImagesResult("missing ports", <<>>)
             ELSE ImagesResult("none",
                      [k \in 1..Len(resolved) |->
                          [name |-> ImageName(service.name, resolved[k]),
                           url |-> resolved[k].url,
                           image |-> ImageUrl(resolved[k]),
                           ports |-> ports.ports,
                           portsString |-> PortsString(ports.ports)]]))

\* Service.mjs:199-222, the loop over this.images from the k-th string on.
RECURSIVE ImagesFrom(_, _, _, _)
ImagesFrom(service, k, reg, exposed) ==
    IF k > Len(service.images) THEN ImagesResult("none", <<>>)
    ELSE With(parseImageString(service.images[k]), LAMBDA parsed :
             IF parsed.error # "none" THEN ImagesResult(parsed.error, <<>>)
             ELSE With(getImageFlatMap(parsed, reg), LAMBDA flat :
                 IF flat.error # "none" THEN ImagesResult(flat.error, <<>>)
                 ELSE With(ImagesOfResolved(service, flat.images, exposed), LAMBDA first :
                     IF first.error # "none" THEN first
                     ELSE With(ImagesFrom(service, k + 1, reg, exposed), LAMBDA others :
                         IF others.error # "none" THEN others
                         ELSE ImagesResult("none", first.images \o others.images)))))

getImages(service, reg, exposed) == ImagesFrom(service, 1, reg, exposed)

\* Service.filter(service => serviceNames.includes(service.name)): the
\* services of the registry, in its order, that the server names.
RECURSIVE ServicesOf(_, _)
ServicesOf(registry, serviceNames) ==
    IF registry = <<>> THEN <<>>
    ELSE (IF \E k \in 1..Len(serviceNames) : serviceNames[k] = Head(registry).name
          THEN <<Head(registry)>> ELSE <<>>)
             \o ServicesOf(Tail(registry), serviceNames)

\* (await Promise.all(services.map(service => service.getImages(...)))).flat()
RECURSIVE FlatImages(_, _, _)
FlatImages(services, reg, exposed) ==
    IF services = <<>> THEN <<>>
    ELSE getImages(Head(services), reg, exposed).images \o FlatImages(Tail(services), reg, exposed)

\* The errors with which the getImages calls of these services reject.
ImageErrors(services, reg, exposed) ==
    {getImages(services[k], reg, exposed).error : k \in 1..Len(services)} \ {"none"}

-----------------------------------------------------------------------------
(* The host port check, src/commands/create_service_config.mjs:137-145 *)

\* images.map(({ ports }) => ports.map(({ host }) => host)).flat()
RECURSIVE HostPorts(_)
HostPorts(images) ==
    IF images = <<>> THEN <<>>
    ELSE [k \in 1..Len(Head(images).ports) |-> Head(images).ports[k].host]
             \o HostPorts(Tail(images))

\* images.filter(({ ports }) => ports.map(({ host }) => host).includes(port))
RECURSIVE imagesOnPort(_, _)
imagesOnPort(images, port) ==
    IF images = <<>> THEN <<>>
    ELSE (IF \E k \in 1..Len(Head(images).ports) : Head(images).ports[k].host = port
          THEN <<Head(images)>> ELSE <<>>)
             \o imagesOnPort(Tail(images), port)

\* A variant of PortIsSet under which no port is looked at.
PortIsNeverSet(port) == FALSE

\* create_service_config.mjs:139, if (!port) continue
PortIsSet(port) == Truthy(port)

\* create_service_config.mjs:138-145: the error of the first host port, in
\* the order of the images and their descriptors, that more than one image uses.
HostPortError(serverName, images) ==
    With(HostPorts(images), LAMBDA hosts :
    With({k \in 1..Len(hosts) :
             PortIsSet(hosts[k]) /\ Len(imagesOnPort(images, hosts[k])) > 1}, LAMBDA bad :
        IF bad = {} THEN NoError
        ELSE With(CHOOSE k \in bad : \A j \in bad : k <= j, LAMBDA first :
             With(imagesOnPort(images, hosts[first]), LAMBDA on :
                 [kind |-> "host port used by multiple images",
                  port |-> hosts[first],
                  server |-> serverName,
                  images |-> [k \in 1..Len(on) |-> on[k].name]]))))

-----------------------------------------------------------------------------
(* The file system and the configuration *)

\* A path of the output folder: the kind of artifact and whose it is.
Path(kind, name) == <<kind, name>>

exists(fs, path) == path \in DOMAIN fs
writeFile(fs, path, data) == [p \in DOMAIN fs \cup {path} |-> IF p = path THEN data ELSE fs[p]]
unlink(fs, path) == [p \in DOMAIN fs \ {path} |-> fs[p]]

\* The registry the image references are resolved against, and the ports the
\* pulled images expose.
Registry == [token |-> TRUE, packages |-> <<<<"r">>>>, tags |-> <<<<"v", "1">>, <<"v", "2">>>>]
ExposedPorts == <<<<"9">>>>

ServiceDockerCompose == "docker-compose.yml"

-----------------------------------------------------------------------------
(* create_service_config, src/commands/create_service_config.mjs:48-157 *)

Servers == 1..Len(cfg.servers)

\* The promise of server s rejects with error; the first rejection of a
\* Promise.all is the error of the command.
SvcReject(state, s, error) ==
    IF state.phase \in {"create", "upload"}
    THEN [state EXCEPT !.taskError[s] = error, !.phase = "failed", !.error = error]
    ELSE [state EXCEPT !.taskError[s] = error]

\* create_service_config.mjs:123-135: the folder, the services the server
\* names, and their images.
RetrieveImages(s) ==
    /\ svc.phase # "idle"
    /\ svc.task[s] = "start"
    /\ \E services \in {ServicesOf(cfg.services, cfg.servers[s].services)} :
       \E errors \in {ImageErrors(services, Registry, ExposedPorts)} :
          IF errors # {}
          THEN \E e \in errors :
                  svc' = SvcReject([svc EXCEPT !.task[s] = "failed"], s, [kind |-> e])
          ELSE svc' = [svc EXCEPT !.task[s] = "images",
                                  !.images[s] = FlatImages(services, Registry, ExposedPorts)]
    /\ UNCHANGED <<cfg, files, px, srv, parseVars, unitVars>>

\* create_service_config.mjs:137-150: the host port check and the ghcr flag.
CheckHostPorts(s) ==
    /\ svc.task[s] = "images"
    /\ \E error \in {HostPortError(cfg.servers[s].name, svc.images[s])} :
           IF error # NoError
           THEN svc' = SvcReject([svc EXCEPT !.task[s] = "failed"], s, error)
           ELSE svc' = [svc EXCEPT
                           !.task[s] = "checked",
                           !.ghcr = IF \E k \in 1..Len(svc.images[s]) :
                                         indexOf(svc.images[s][k].url, GHCR) > 0
                                    THEN @ \cup {cfg.servers[s].name} ELSE @]
    /\ UNCHANGED <<cfg, files, px, srv, parseVars, unitVars>>

\* create_service_config.mjs:152-156: docker-compose.yml is written, one
\* service per image.
WriteDockerCompose(s) ==
    /\ svc.task[s] = "checked"
    /\ files' = writeFile(files, Path(ServiceDockerCompose, cfg.servers[s].name),
                          [k \in 1..Len(svc.images[s]) |->
                              [name |-> svc.images[s][k].name,
                               image |-> svc.images[s][k].image,
                               ports |-> svc.images[s][k].portsString]])
    /\ svc' = [svc EXCEPT !.task[s] = "written"]
    /\ UNCHANGED <<cfg, px, srv, parseVars, unitVars>>

\* The upload follows in a dry run as well.
DockerFilesCreatedThenUpload ==
    /\ svc.phase = "create"
    /\ \A s \in Servers : svc.task[s] = "written"
    /\ svc' = [svc EXCEPT !.phase = "upload"]
    /\ UNCHANGED <<cfg, files, px, srv, parseVars, unitVars>>

\* create_service_config.mjs:64-69: every createDockerFile has resolved.
DockerFilesCreated ==
    /\ svc.phase = "create"
    /\ \A s \in Servers : svc.task[s] = "written"
    /\ svc' = [svc EXCEPT !.phase = IF cfg.dryRun THEN "done" ELSE "upload"]
    /\ UNCHANGED <<cfg, files, px, srv, parseVars, unitVars>>

\* Server.getSSHKeys(ctx, { private: true }), part_003:396-406
PrivateKeysOf(server) ==
    SelectSeq(cfg.sshKeys,
              LAMBDA key : key.private /\ \E k \in 1..Len(server.sshKeys) :
                                              server.sshKeys[k] = key.name)

\* create_service_config.mjs:80-114 with Server.upload, part_003:415-451: the
\* folder is copied to the server and docker-compose is started; a command
\* that exits with a code is an error unless force is set.
uploadAndApply(s, exitCode) ==
    /\ svc.phase \in {"upload", "failed"}
    /\ svc.task[s] = "written"
    /\ svc.up[s] = "idle"
    /\ \A t \in Servers : svc.task[t] = "written"
    /\ IF PrivateKeysOf(cfg.servers[s]) = <<>>
       THEN svc' = SvcReject([svc EXCEPT !.up[s] = "failed"], s, [kind |-> "no private ssh key"])
       ELSE IF exitCode # 0 /\ ~cfg.force
       THEN svc' = SvcReject([svc EXCEPT !.up[s] = "failed"], s, [kind |-> "execution failed"])
       ELSE svc' = [svc EXCEPT !.up[s] = "applied"]
    /\ UNCHANGED <<cfg, files, px, srv, parseVars, unitVars>>

\* create_service_config.mjs:68: every uploadAndApply has resolved.
ServicesApplied ==
    /\ svc.phase = "upload"
    /\ \A s \in Servers : svc.up[s] = "applied"
    /\ svc' = [svc EXCEPT !.phase = "done"]
    /\ UNCHANGED <<cfg, files, px, srv, parseVars, unitVars>>

-----------------------------------------------------------------------------
(* The configurations create_service_config is run on *)

\* A service has at most MaxPorts entries in ports.
MaxPorts == 2

ImgPinned == <<"g", "h", "c", "r", ".", "i", "o", "/", "o", "/", "r", ":", "v", "1">>
ImgAllTags == <<"g", "h", "c", "r", ".", "i", "o", "/", "o", "/", "r", ":", "*">>
ImgOther == <<"q", ".", "i", "o", "/", "o", "/", "q", ":", "v", "1">>

\* proxy:host:container, host:host:container, proxy:container, a host port
\* left empty, and a second container behind the host port of the first
PortStrings ==
    { <<"8", ":", "7", ":", "9">>,
      <<"7", ":", "7", ":", "9">>,
      <<"8", ":", "9">>,
      <<"8", ":", ":", "9">>,
      <<"6", ":", "7", ":", "5">> }

ProxyStrings == { <<"d", ":", "8", ":", "7", ":", "9">> }

NameA == <<"a">>
NameB == <<"b">>
NameGhost == <<"g">>
NameAdmin == <<"k">>
NameS1 == <<"s", "1">>
NameS2 == <<"s", "2">>

ServiceA(images, ports, proxies) ==
    [name |-> NameA, images |-> images, ports |-> ports, proxies |-> proxies]
ServiceB(ports) ==
    [name |-> NameB, images |-> <<ImgOther>>, ports |-> ports, proxies |-> <<>>]

ServerOf(name, ipv4, sshKeys, services, volumes) ==
    [name |-> name, ipv4 |-> ipv4, sshKeys |-> sshKeys, services |-> services,
     volumes |-> volumes]

AdminKey == [name |-> NameAdmin, private |-> TRUE, public |-> TRUE]

\* What hcloud.yml says: the services a and b, one ssh key, and two servers:
\* one runs a and b, the other b and a service that is not defined.
ServiceConfig(k2, images, ports, proxies, portsB, force, dryRun) ==
    [servers |-> <<ServerOf(NameS1, <<"1">>, <<NameAdmin>>, <<NameA, NameB>>, <<>>),
                   ServerOf(NameS2, <<"2">>, k2, <<NameGhost, NameB>>, <<>>)>>,
     services |-> <<ServiceA(images, ports, proxies), ServiceB(portsB)>>,
     sshKeys |-> <<AdminKey>>,
     volumes |-> <<>>,
     force |-> force,
     dryRun |-> dryRun,
     existing |-> {}]

ServiceInit ==
    /\ \E k2 \in {<<NameAdmin>>, <<>>},
          images \in {<<ImgPinned>>, <<ImgAllTags>>},
          ports \in SeqUpTo(PortStrings, MaxPorts),
          proxies \in {<<>>} \cup {<<p>> : p \in ProxyStrings},
          portsB \in {<<>>, <<<<"7", ":", "7", ":", "9">>>>, <<<<"4", ":", "9">>>>},
          force \in BOOLEAN,
          dryRun \in BOOLEAN :
            cfg = ServiceConfig(k2, images, ports, proxies, portsB, force, dryRun)
    /\ files = NoFiles
    /\ svc = [phase |-> "create", error |-> NoError,
              task |-> [s \in 1..2 |-> "start"],
              taskError |-> [s \in 1..2 |-> NoError],
              images |-> [s \in 1..2 |-> <<>>],
              ghcr |-> {},
              up |-> [s \in 1..2 |-> "idle"]]
    /\ px = IdlePx
    /\ srv = IdleSrv
    /\ content = <<>>
    /\ ctxReserved = FALSE
    /\ throwOnUndefined = TRUE
    /\ pState = "idle"
    /\ parts = <<>>
    /\ rendered = <<>>
    /\ completed = <<>>
    /\ pResult = Null
    /\ pError = NoError
    /\ resolve = IdleResolve
    /\ portParse = IdlePortParse
    /\ registries = IdleRegistries
    /\ listing = IdleListing
    /\ naming = IdleNaming

ServiceNext ==
    \/ \E s \in Servers : RetrieveImages(s)
    \/ \E s \in Servers : CheckHostPorts(s)
    \/ \E s \in Servers : WriteDockerCompose(s)
    \/ DockerFilesCreated
    \/ \E s \in Servers, exitCode \in {0, 1} : uploadAndApply(s, exitCode)
    \/ ServicesApplied

SpecService == ServiceInit /\ [][ServiceNext]_vars

-----------------------------------------------------------------------------
(* Properties of create_service_config *)

DockerComposeOf(s) == Path(ServiceDockerCompose, cfg.servers[s].name)

\* The k-th image resolved for server s has a descriptor with host port p.
UsesHostPort(s, k, p) ==
    \E d \in 1..Len(svc.images[s][k].ports) : svc.images[s][k].ports[d].host = p

HostPortsOn(s) ==
    UNION {{svc.images[s][k].ports[d].host : d \in 1..Len(svc.images[s][k].ports)} :
              k \in 1..Len(svc.images[s])}

\* Two different images resolved for server s have host port p.
SharedHostPort(s, p) ==
    \E i, j \in 1..Len(svc.images[s]) :
        i # j /\ UsesHostPort(s, i, p) /\ UsesHostPort(s, j, p)

\* createDockerFile of server s has failed, its error names a host port two
\* images share and every image that uses it, and no docker-compose.yml of
\* the server is written.
FailsNamingTheImages(s) ==
    /\ svc.task[s] \in {"images", "failed"}
    /\ ~exists(files, DockerComposeOf(s))
    /\ svc.task[s] = "failed" =>
          /\ svc.taskError[s].kind = "host port used by multiple images"
          /\ svc.taskError[s].server = cfg.servers[s].name
          /\ SharedHostPort(s, svc.taskError[s].port)
          /\ {svc.taskError[s].images[k] : k \in 1..Len(svc.taskError[s].images)}
                = {svc.images[s][k].name :
                      k \in {i \in 1..Len(svc.images[s]) :
                                UsesHostPort(s, i, svc.taskError[s].port)}}

\* C1 (as claimed): if two different images resolved for a server have a
\* descriptor with the same host port that is not null, createDockerFile of
\* that server fails with an error that names every image using the port, and
\* no docker-compose.yml is written for the server.
C1_SharedNonNullHostPortFails ==
    \A s \in Servers : \A p \in HostPortsOn(s) :
        (p \notin {Null, Undefined} /\ SharedHostPort(s, p)) => FailsNamingTheImages(s)

\* C1 (amended): if two different images resolved for a server have a
\* descriptor with the same host port that is neither null nor the empty
\* string, createDockerFile of that server fails with an error that names
\* every image using the port, and no docker-compose.yml is written for the
\* server.
C1_SharedHostPortFails ==
    \A s \in Servers : \A p \in HostPortsOn(s) :
        (Truthy(p) /\ SharedHostPort(s, p)) => FailsNamingTheImages(s)

\* C1, reached: createDockerFile has failed on a host port that images of two
\* services share.
C1_Witness ==
    \E s \in Servers :
        /\ svc.task[s] = "failed"
        /\ svc.taskError[s].kind = "host port used by multiple images"
        /\ Len(svc.taskError[s].images) >= 2
        /\ ~exists(files, DockerComposeOf(s))

-----------------------------------------------------------------------------
(* Upstreams, src/commands/create_proxy_config.mjs:88-121 *)

\* s.replace(/[^a-zA-Z0-9]/gi, '-')
RECURSIVE DashNonAlphanumeric(_)
DashNonAlphanumeric(s) ==
    IF s = <<>> THEN <<>>
    ELSE <<IF Head(s) \in LowerCaseLetters \cup UpperCaseLetters \cup Digits
           THEN Head(s) ELSE "-">> \o DashNonAlphanumeric(Tail(s))

\* stringUtils.mjs:44-50, hostname
hostname(name) ==
    With(TrimEnd(TrimStart(CollapseRuns(DashNonAlphanumeric(name), "-"), "-"), "-"),
         LAMBDA trimmed : [k \in 1..Len(trimmed) |-> toLowerCase(trimmed[k])])

\* A value inside a template literal: null and undefined are spelled out.
ToText(v) ==
    IF v = Null THEN <<"n", "u", "l", "l">>
    ELSE IF v = Undefined THEN UndefinedStr
    ELSE v

Slash == <<"/">>
LeastConn == <<"l", "e", "a", "s", "t", "_", "c", "o", "n", "n">>

\* a || b
Or(a, b) == IF Truthy(a) THEN a ELSE b

\* create_proxy_config.mjs:101-112, the entry pushed to upstream.servers.
Backend(server, image, port) ==
    [name |-> image.name,
     host |-> server.ipv4,
     port |-> port.host,
     proxyPort |-> Or(port.proxyPort, port.container),
     image |-> [name |-> image.image,
                port |-> port.container,
                path |-> Or(port.details.path, Slash),
                host |-> Or(port.details.host, server.ipv4)]]

\* The index of the entry called name, 0 when there is none.
IndexOfName(entries, name) ==
    With({k \in 1..Len(entries) : entries[k].name = name}, LAMBDA at :
        IF at = {} THEN 0 ELSE CHOOSE k \in at : \A j \in at : k <= j)

NoUpstreams == [upstreams |-> <<>>, byServer |-> <<>>]

\* A variant of AddDescriptor under which an upstream keeps its first backend
\* alone.
AddDescriptorOnce(maps, server, image, port) ==
    IF ~Truthy(port.proxyPort) THEN maps
    ELSE With(hostname(image.name \o <<"-">> \o ToText(port.container)), LAMBDA upstreamName :
         With(IndexOfName(maps.upstreams, upstreamName), LAMBDA u :
         With(IndexOfName(maps.byServer, server.name), LAMBDA b :
             [upstreams |->
                 IF u = 0
                 THEN Append(maps.upstreams,
                             [name |-> upstreamName,
                              servers |-> <<Backend(server, image, port)>>,
                              loadBalancer |-> port.details.schema])
                 ELSE maps.upstreams,
              byServer |->
                 IF b = 0
                 THEN Append(maps.byServer, [name |-> server.name, upstreams |-> <<upstreamName>>])
                 ELSE IF \E k \in 1..Len(maps.byServer[b].upstreams) :
                            maps.byServer[b].upstreams[k] = upstreamName
                 THEN maps.byServer
                 ELSE [maps.byServer EXCEPT ![b].upstreams = Append(@, upstreamName)]])))

\* create_proxy_config.mjs:94-118, one port descriptor of one image: maps is
\* upstreamMap (upstreams) and serverUpstreamMap (byServer), each in the order
\* in which its keys were added.
AddDescriptor(maps, server, image, port) ==
    IF ~Truthy(port.proxyPort) THEN maps
    ELSE With(hostname(image.name \o <<"-">> \o ToText(port.container)), LAMBDA upstreamName :
         With(IndexOfName(maps.upstreams, upstreamName), LAMBDA u :
         With(IndexOfName(maps.byServer, server.name), LAMBDA b :
             [upstreams |->
                 IF u = 0
                 THEN Append(maps.upstreams,
                             [name |-> upstreamName,
                              servers |-> <<Backend(server, image, port)>>,
                              loadBalancer |-> port.details.schema])
                 ELSE [maps.upstreams EXCEPT
                          ![u].servers = Append(@, Backend(server, image, port)),
                          ![u].loadBalancer = Or(@, port.details.schema)],
              byServer |->
                 IF b = 0
                 THEN Append(maps.byServer, [name |-> server.name, upstreams |-> <<upstreamName>>])
                 ELSE IF \E k \in 1..Len(maps.byServer[b].upstreams) :
                            maps.byServer[b].upstreams[k] = upstreamName
                 THEN maps.byServer
                 ELSE [maps.byServer EXCEPT ![b].upstreams = Append(@, upstreamName)]])))

\* create_proxy_config.mjs:93, the descriptors of one image from the k-th on.
RECURSIVE AddDescriptors(_, _, _, _)
AddDescriptors(maps, server, image, k) ==
    IF k > Len(image.ports) THEN maps
    ELSE With(AddDescriptor(maps, server, image, image.ports[k]), LAMBDA next :
             AddDescriptors(next, server, image, k + 1))

\* create_proxy_config.mjs:92, the images of one server from the k-th on.
RECURSIVE AddImages(_, _, _, _)
AddImages(maps, server, images, k) ==
    IF k > Len(images) THEN maps
    ELSE With(AddDescriptors(maps, server, images[k], 1), LAMBDA next :
             AddImages(next, server, images, k + 1))

\* create_proxy_config.mjs:125, upstream.loadBalancer || 'least_conn'
WithDefaultLoadBalancer(upstreams) ==
    [k \in 1..Len(upstreams) |->
        [upstreams[k] EXCEPT !.loadBalancer = Or(@, LeastConn)]]

\* create_proxy_config.mjs:124-127, the backends whose host port is not known
\* yet, as <<upstream, backend>>.
WithoutHostPort(upstreams) ==
    UNION {{<<u, b>> : b \in {c \in 1..Len(upstreams[u].servers) :
                                 ~Truthy(upstreams[u].servers[c].port)}} :
              u \in 1..Len(upstreams)}

-----------------------------------------------------------------------------
(* createNginXConfForServer, src/commands/create_proxy_config.mjs:234-291 *)

ProxyNginxConf == "nginx.conf"

\* create_proxy_config.mjs:244-254, the route of one upstream on this server:
\* the first of its backends that runs on the server.
RouteOf(server, upstream) ==
    With(CHOOSE b \in 1..Len(upstream.servers) :
            /\ upstream.servers[b].host = server.ipv4
            /\ \A c \in 1..(b - 1) : upstream.servers[c].host # server.ipv4,
         LAMBDA b :
            [host |-> Or(upstream.servers[b].image.host, server.ipv4),
             port |-> upstream.servers[b].port,
             proxyPort |-> upstream.servers[b].proxyPort,
             path |-> upstream.servers[b].image.path,
             upstream |-> upstream.name])

\* create_proxy_config.mjs:246, the key of hosts
hostName(route) == route.host \o <<":">> \o ToText(route.proxyPort)

\* create_proxy_config.mjs:247-254, hosts[hostName].push(route), the keys of
\* hosts in the order in which they were added.
AddRoute(hosts, route) ==
    With(IndexOfName(hosts, hostName(route)), LAMBDA h :
        IF h = 0 THEN Append(hosts, [name |-> hostName(route), routes |-> <<route>>])
        ELSE [hosts EXCEPT ![h].routes = Append(@, route)])

\* create_proxy_config.mjs:239-255, the loop over the upstreams from the k-th on.
RECURSIVE HostsFrom(_, _, _, _)
HostsFrom(hosts, server, upstreams, k) ==
    IF k > Len(upstreams) THEN hosts
    ELSE With(AddRoute(hosts, RouteOf(server, upstreams[k])), LAMBDA next :
             HostsFrom(next, server, upstreams, k + 1))

\* A variant of SamePath under which no two routes have the same path.
NeverSamePath(a, b) == FALSE

\* create_proxy_config.mjs:261-264, paths[path] holds a route already.
SamePath(a, b) == a.path = b.path

\* create_proxy_config.mjs:258-274: the routes, as <<key, route>>, that come
\* after a route with the same key and the same path.
RepeatedRoutes(hosts) ==
    UNION {{<<h, r>> : r \in {q \in 1..Len(hosts[h].routes) :
                                 \E p \in 1..(q - 1) :
                                     SamePath(hosts[h].routes[p], hosts[h].routes[q])}} :
              h \in 1..Len(hosts)}

\* create_proxy_config.mjs:265-269, the error of the first repeated route.
ConflictError(server, hosts) ==
    With(RepeatedRoutes(hosts), LAMBDA repeated :
        IF repeated = {} THEN NoError
        ELSE With(CHOOSE x \in repeated :
                     \A y \in repeated : x[1] < y[1] \/ (x[1] = y[1] /\ x[2] <= y[2]),
                  LAMBDA x :
                     [kind |-> "multiple services on the same host:port/location",
                      server |-> server.name,
                      host |-> hosts[x[1]].routes[x[2]].host,
                      proxyPort |-> hosts[x[1]].routes[x[2]].proxyPort,
                      path |-> hosts[x[1]].routes[x[2]].path]))

\* create_proxy_config.mjs:238-242,277-289: what nginx.conf says, an upstream
\* block per upstream and a server block per key of hosts, with a location
\* per route of the key.
NginxConf(upstreams, hosts) ==
    [upstreams |->
        [k \in 1..Len(upstreams) |->
            [name |-> upstreams[k].name,
             loadBalancer |-> upstreams[k].loadBalancer,
             serverlist |-> [b \in 1..Len(upstreams[k].servers) |->
                                upstreams[k].servers[b].host \o <<":">>
                                    \o ToText(upstreams[k].servers[b].port)]]],
     servers |->
        [h \in 1..Len(hosts) |->
            [host |-> hosts[h].routes[1].host,
             port |-> hosts[h].routes[1].port,
             proxyPort |-> hosts[h].routes[1].proxyPort,
             locations |-> [r \in 1..Len(hosts[h].routes) |->
                               [path |-> hosts[h].routes[r].path,
                                upstream |-> hosts[h].routes[r].upstream]]]]]

\* upstreamNames.map(upstreamName => upstreamMap[upstreamName])
UpstreamsNamed(upstreams, names) ==
    [k \in 1..Len(names) |-> upstreams[IndexOfName(upstreams, names[k])]]

\* The server called name.
ServerNamed(name) == cfg.servers[IndexOfName(cfg.servers, name)]

\* ctx.servers.filter(server => !Object.keys(serverUpstreamMap).includes(server.name))
serversWithoutUpstreams(byServer) ==
    SelectSeq(cfg.servers, LAMBDA server : IndexOfName(byServer, server.name) = 0)

\* A variant of RemoveConf that leaves the file.
KeepConf(fs, path) == fs

\* create_proxy_config.mjs:166, if (fs.existsSync(output)) fs.unlinkSync(output)
RemoveConf(fs, path) == IF exists(fs, path) THEN unlink(fs, path) ELSE fs

RECURSIVE RemoveConfs(_, _)
RemoveConfs(fs, servers) ==
    IF servers = <<>> THEN fs
    ELSE With(RemoveConf(fs, Path(ProxyNginxConf, Head(servers).name)), LAMBDA next :
             RemoveConfs(next, Tail(servers)))

-----------------------------------------------------------------------------
(* createNginXConfig, src/commands/create_proxy_config.mjs:69-207 *)

\* String(Math.floor(Math.random() * 10000) + 10000), two of its values
RandomPorts == {<<"1", "0", "0", "0", "0">>, <<"1", "9", "9", "9", "9">>}

\* What docker-compose port reports, two of its values
DockerPorts == {<<"3", "2", "7", "6", "8">>, <<"3", "2", "7", "6", "9">>}

PxFail(error) == [px EXCEPT !.pc = "failed", !.at = px.pc, !.error = error]

\* create_proxy_config.mjs:90-120, one pass of the loop over the servers: the
\* images of the server's services and an upstream per proxied descriptor.
CollectUpstreams ==
    /\ px.pc = "collect"
    /\ \E server \in {cfg.servers[px.k]} :
       \E services \in {ServicesOf(cfg.services, server.services)} :
       \E errors \in {ImageErrors(services, Registry, ExposedPorts)} :
          IF errors # {}
          THEN \E e \in errors : px' = PxFail([kind |-> e])
          ELSE px' = [px EXCEPT
                         !.maps = AddImages(@, server,
                                            FlatImages(services, Registry, ExposedPorts), 1),
                         !.k = IF px.k = Len(cfg.servers) THEN 1 ELSE px.k + 1,
                         !.pc = IF px.k = Len(cfg.servers) THEN "ports" ELSE "collect"]
    /\ UNCHANGED <<cfg, files, svc, srv, parseVars, unitVars>>

\* The host ports port, per backend without one, put into the upstreams.
WithHostPorts(upstreams, port) ==
    [u \in 1..Len(upstreams) |->
        [upstreams[u] EXCEPT !.servers =
            [b \in 1..Len(upstreams[u].servers) |->
                IF <<u, b>> \in DOMAIN port
                THEN [upstreams[u].servers[b] EXCEPT !.port = port[<<u, b>>]]
                ELSE upstreams[u].servers[b]]]]

\* create_proxy_config.mjs:124-153: the default load balancer, and the host
\* port of every backend that has none: a random one in a dry run, else the
\* one docker-compose reports on the server, which takes a private ssh key
\* of the server and a command that exits with 0.
RetrieveHostPorts(exitCode) ==
    /\ px.pc = "ports"
    /\ \E upstreams \in {WithDefaultLoadBalancer(px.maps.upstreams)} :
       \E missing \in {WithoutHostPort(upstreams)} :
          IF cfg.dryRun
          THEN \E port \in [missing -> RandomPorts] :
                  px' = [px EXCEPT !.maps.upstreams = WithHostPorts(upstreams, port),
                                   !.pc = "conf", !.k = 1]
          ELSE IF \E x \in missing :
                     PrivateKeysOf(ServerNamed(
                         CHOOSE name \in {cfg.servers[s].name : s \in Servers} :
                             ServerNamed(name).ipv4 = upstreams[x[1]].servers[x[2]].host)) = <<>>
          THEN px' = PxFail([kind |-> "no private ssh key"])
          ELSE IF missing # {} /\ exitCode # 0
          THEN px' = [PxFail([kind |-> "execution failed"]) EXCEPT
                         !.remote = @ \cup {"docker-compose port"}]
          ELSE \E port \in [missing -> DockerPorts] :
                  px' = [px EXCEPT !.maps.upstreams = WithHostPorts(upstreams, port),
                                   !.remote = IF missing # {}
                                              THEN @ \cup {"docker-compose port"} ELSE @,
                                   !.pc = "conf", !.k = 1]
    /\ UNCHANGED <<cfg, files, svc, srv, parseVars, unitVars>>

\* create_proxy_config.mjs:156-160 and 234-291: nginx.conf of the k-th server
\* with upstreams. A repeated route is an error unless force is set, and then
\* it is a warning.
createNginXConfForServer ==
    /\ px.pc = "conf"
    /\ px.k <= Len(px.maps.byServer)
    /\ \E server \in {ServerNamed(px.maps.byServer[px.k].name)} :
       \E upstreams \in {UpstreamsNamed(px.maps.upstreams, px.maps.byServer[px.k].upstreams)} :
       \E hosts \in {HostsFrom(<<>>, server, upstreams, 1)} :
       \E error \in {ConflictError(server, hosts)} :
          IF error # NoError /\ ~cfg.force
          THEN /\ px' = PxFail(error)
               /\ UNCHANGED files
          ELSE /\ files' = writeFile(files, Path(ProxyNginxConf, server.name),
                                     NginxConf(upstreams, hosts))
               /\ px' = [px EXCEPT !.k = @ + 1,
                                   !.wrote = @ \cup {server.name},
                                   !.warned = IF error # NoError
                                              THEN @ \cup {server.name} ELSE @]
    /\ UNCHANGED <<cfg, svc, srv, parseVars, unitVars>>

\* create_proxy_config.mjs:162-167: nginx.conf of every server without
\* upstreams is removed.
DisableServersWithoutUpstreams ==
    /\ px.pc = "conf"
    /\ px.k > Len(px.maps.byServer)
    /\ files' = RemoveConfs(files, serversWithoutUpstreams(px.maps.byServer))
    /\ px' = [px EXCEPT !.pc = IF cfg.dryRun THEN "done" ELSE "disable", !.k = 1]
    /\ UNCHANGED <<cfg, svc, srv, parseVars, unitVars>>

\* Server.upload and the two commands that follow it: the folder is copied
\* (a failed copy is an error unless force is set) and the commands are run
\* (create_proxy_config.mjs:183,203: a failed command is an error if force
\* is set).
RemoteFails(server, copyExit, commandExit) ==
    IF PrivateKeysOf(server) = <<>> THEN [kind |-> "no private ssh key"]
    ELSE IF copyExit # 0 /\ ~cfg.force THEN [kind |-> "execution failed"]
    ELSE IF commandExit # 0 /\ cfg.force THEN [kind |-> "execution failed"]
    ELSE NoError

\* create_proxy_config.mjs:170-185, nginx is disabled on the k-th server
\* without upstreams.
DisableNginx(copyExit, commandExit) ==
    /\ px.pc = "disable"
    /\ \E servers \in {serversWithoutUpstreams(px.maps.byServer)} :
          IF px.k > Len(servers)
          THEN px' = [px EXCEPT !.pc = "apply", !.k = 1]
          ELSE \E error \in {RemoteFails(servers[px.k], copyExit, commandExit)} :
                  IF error # NoError
                  THEN px' = [PxFail(error) EXCEPT !.remote = @ \cup {"upload"}]
                  ELSE px' = [px EXCEPT !.k = @ + 1, !.remote = @ \cup {"upload", "disable"}]
    /\ UNCHANGED <<cfg, files, svc, srv, parseVars, unitVars>>

\* create_proxy_config.mjs:187-205, nginx.conf is uploaded to the k-th server
\* with upstreams and applied.
ApplyNginx(copyExit, commandExit) ==
    /\ px.pc = "apply"
    /\ IF px.k > Len(px.maps.byServer)
       THEN px' = [px EXCEPT !.pc = "done"]
       ELSE \E error \in {RemoteFails(ServerNamed(px.maps.byServer[px.k].name),
                                      copyExit, commandExit)} :
               IF error # NoError
               THEN px' = [PxFail(error) EXCEPT !.remote = @ \cup {"upload"}]
               ELSE px' = [px EXCEPT !.k = @ + 1, !.remote = @ \cup {"upload", "apply"}]
    /\ UNCHANGED <<cfg, files, svc, srv, parseVars, unitVars>>

-----------------------------------------------------------------------------
(* The configurations create_proxy_config is run on *)

\* proxy:container, proxy:host:container, and a proxy port left empty
ProxiedPortStrings ==
    { <<"8", ":", "9">>,
      <<"8", ":", "7", ":", "5">>,
      <<":", "9">> }

\* What service b says: a port that is not proxied, a proxied one, a proxy
\* string with a path, or a proxy port left empty.
ProxiedB ==
    { [ports |-> <<<<"7", ":", "7", ":", "9">>>>, proxies |-> <<>>],
      [ports |-> <<<<"8", ":", "9">>>>, proxies |-> <<>>],
      [ports |-> <<>>, proxies |-> <<<<"d", ":", "8", ":", "9", "/", "p">>>>],
      [ports |-> <<<<":", "9">>>>, proxies |-> <<>>] }

\* What hcloud.yml and the output folder say: server s1 runs a and b, server
\* s2 runs b or nothing, and existing are the servers with an nginx.conf of
\* an earlier run.
ProxyConfig(s2, images, ports, b, force, dryRun, existing) ==
    [servers |-> <<ServerOf(NameS1, <<"1">>, <<NameAdmin>>, <<NameA, NameB>>, <<>>),
                   ServerOf(NameS2, <<"2">>, <<NameAdmin>>, s2, <<>>)>>,
     services |-> <<ServiceA(images, ports, <<>>),
                    [name |-> NameB, images |-> <<ImgOther>>,
                     ports |-> b.ports, proxies |-> b.proxies]>>,
     sshKeys |-> <<AdminKey>>,
     volumes |-> <<>>,
     force |-> force,
     dryRun |-> dryRun,
     existing |-> existing]

\* An nginx.conf of an earlier run.
EarlierConf == [upstreams |-> <<>>, servers |-> <<>>]

ProxyInit ==
    /\ \E s2 \in {<<NameB>>, <<>>},
          images \in {<<ImgPinned>>, <<ImgAllTags>>},
          ports \in SeqUpTo(ProxiedPortStrings, MaxPorts),
          b \in ProxiedB,
          force \in BOOLEAN,
          dryRun \in BOOLEAN,
          existing \in SUBSET {NameS1, NameS2} :
            /\ cfg = ProxyConfig(s2, images, ports, b, force, dryRun, existing)
            /\ files = [p \in {Path(ProxyNginxConf, name) : name \in existing} |-> EarlierConf]
    /\ px = [pc |-> "collect", k |-> 1, maps |-> NoUpstreams, error |-> NoError,
             at |-> "none", wrote |-> {}, warned |-> {}, remote |-> {}]
    /\ svc = IdleSvc
    /\ srv = IdleSrv
    /\ content = <<>>
    /\ ctxReserved = FALSE
    /\ throwOnUndefined = TRUE
    /\ pState = "idle"
    /\ parts = <<>>
    /\ rendered = <<>>
    /\ completed = <<>>
    /\ pResult = Null
    /\ pError = NoError
    /\ resolve = IdleResolve
    /\ portParse = IdlePortParse
    /\ registries = IdleRegistries
    /\ listing = IdleListing
    /\ naming = IdleNaming

ProxyNext ==
    \/ CollectUpstreams
    \/ \E exitCode \in {0, 1} : RetrieveHostPorts(exitCode)
    \/ createNginXConfForServer
    \/ DisableServersWithoutUpstreams
    \/ \E copyExit \in {0, 1}, commandExit \in {0, 1} : DisableNginx(copyExit, commandExit)
    \/ \E copyExit \in {0, 1}, commandExit \in {0, 1} : ApplyNginx(copyExit, commandExit)

SpecProxy == ProxyInit /\ [][ProxyNext]_vars

-----------------------------------------------------------------------------
(* Properties of create_proxy_config *)

NginxConfOf(name) == Path(ProxyNginxConf, name)

\* The (host, proxyPort, path) the e-th upstream entry of the j-th server
\* with upstreams resolves to.
TripleOf(j, e) ==
    With(RouteOf(ServerNamed(px.maps.byServer[j].name),
                 px.maps.upstreams[IndexOfName(px.maps.upstreams,
                                               px.maps.byServer[j].upstreams[e])]),
         LAMBDA route : <<route.host, route.proxyPort, route.path>>)

\* Two upstream entries of the j-th server resolve to the same triple.
HasDuplicateRoute(j) ==
    \E e, f \in 1..Len(px.maps.byServer[j].upstreams) : e # f /\ TripleOf(j, e) = TripleOf(j, f)

\* createNginXConfForServer has been called for the j-th server with upstreams.
ConfAttempted(j) ==
    /\ j \in 1..Len(px.maps.byServer)
    /\ \/ px.pc = "conf" /\ px.k > j
       \/ px.pc \in {"disable", "apply", "done"}
       \/ px.pc = "failed" /\ px.at \in {"disable", "apply"}
       \/ px.pc = "failed" /\ px.at = "conf" /\ px.k >= j

\* nginx.conf of the server called name is as it was before the run.
ConfUntouched(name) ==
    /\ name \notin px.wrote
    /\ exists(files, NginxConfOf(name)) <=> name \in cfg.existing
    /\ exists(files, NginxConfOf(name)) => files[NginxConfOf(name)] = EarlierConf

\* C4: without force, createNginXConfForServer fails for a server of which
\* two upstream entries resolve to the same (host, proxyPort, path), with the
\* error that names the server, and writes no nginx.conf for it.
C4_DuplicateRouteFailsWithoutForce ==
    \A j \in 1..Len(px.maps.byServer) :
        (~cfg.force /\ ConfAttempted(j) /\ HasDuplicateRoute(j)) =>
            /\ px.pc = "failed" /\ px.at = "conf" /\ px.k = j
            /\ px.error.kind = "multiple services on the same host:port/location"
            /\ px.error.server = px.maps.byServer[j].name
            /\ \E e \in 1..Len(px.maps.byServer[j].upstreams) :
                  TripleOf(j, e) = <<px.error.host, px.error.proxyPort, px.error.path>>
            /\ ConfUntouched(px.maps.byServer[j].name)

\* C4, reached: a server has two upstream entries on one triple and its
\* nginx.conf has failed.
C4_Witness ==
    /\ ~cfg.force
    /\ px.pc = "failed" /\ px.at = "conf"
    /\ HasDuplicateRoute(px.k)
    /\ px.error.kind = "multiple services on the same host:port/location"

\* The locations of a written nginx.conf, as (host, proxyPort, path) with the
\* block and the place in the block.
LocationsOf(conf) ==
    UNION {{<<h, l, conf.servers[h].host, conf.servers[h].proxyPort,
              conf.servers[h].locations[l].path>> :
                l \in 1..Len(conf.servers[h].locations)} :
              h \in 1..Len(conf.servers)}

\* C5 (as claimed): with force, the nginx.conf written for a server has at
\* most one location per (host, proxyPort, path): a route that repeats the
\* triple of an earlier one is dropped.
C5_ForceDropsDuplicateRoute ==
    \A s \in Servers :
        (cfg.force /\ cfg.servers[s].name \in px.wrote) =>
            \A x, y \in LocationsOf(files[NginxConfOf(cfg.servers[s].name)]) :
                (x[3] = y[3] /\ x[4] = y[4] /\ x[5] = y[5]) => x = y

\* The images of server s, as getImages resolves them.
ImagesOfServer(s) ==
    FlatImages(ServicesOf(cfg.services, cfg.servers[s].services), Registry, ExposedPorts)

ProxyPortsOf(s) ==
    With(ImagesOfServer(s), LAMBDA images :
        UNION {{images[k].ports[d].proxyPort : d \in 1..Len(images[k].ports)} :
                  k \in 1..Len(images)})

\* nginx.conf of server s was written in this run and is not empty.
WrittenAndNotEmpty(s) ==
    /\ cfg.servers[s].name \in px.wrote
    /\ exists(files, NginxConfOf(cfg.servers[s].name))
    /\ files[NginxConfOf(cfg.servers[s].name)].upstreams # <<>>
    /\ files[NginxConfOf(cfg.servers[s].name)].servers # <<>>
    /\ \A h \in 1..Len(files[NginxConfOf(cfg.servers[s].name)].servers) :
          files[NginxConfOf(cfg.servers[s].name)].servers[h].locations # <<>>

\* C6 (as claimed): after createNginXConfig has completed, a server has an
\* nginx.conf, a written and non-empty one, if and only if a port descriptor of
\* one of its images has a proxyPort that is not null.
C6_ConfIffNonNullProxyPort ==
    px.pc = "done" =>
        \A s \in Servers :
            IF \E p \in ProxyPortsOf(s) : p \notin {Null, Undefined}
            THEN WrittenAndNotEmpty(s)
            ELSE ~exists(files, NginxConfOf(cfg.servers[s].name))

\* C6 (amended): after createNginXConfig has completed, a server has an
\* nginx.conf, a written and non-empty one, if and only if a port descriptor of
\* one of its images has a proxyPort that is neither null nor the empty string;
\* the nginx.conf an earlier run left for a server without such a descriptor
\* is deleted.
C6_ConfIffProxyPort ==
    px.pc = "done" =>
        \A s \in Servers :
            IF \E p \in ProxyPortsOf(s) : Truthy(p)
            THEN WrittenAndNotEmpty(s)
            ELSE ~exists(files, NginxConfOf(cfg.servers[s].name))

\* C6, reached: the command has completed, one server has its nginx.conf and
\* the nginx.conf an earlier run left for a server without proxied ports is
\* gone.
C6_Witness ==
    /\ px.pc = "done"
    /\ \E s \in Servers : WrittenAndNotEmpty(s)
    /\ \E s \in Servers :
          /\ cfg.servers[s].name \in cfg.existing
          /\ ~exists(files, NginxConfOf(cfg.servers[s].name))

-----------------------------------------------------------------------------
(* create_server_config, src/commands/create_server_config.mjs:77-258 *)

HCloudYml == "hcloud.yml"
ProviderTf == "hcloud_provider.tf"
ServerTf == "hcloud_server.tf"
SSHKeyTf == "hcloud_ssh_key.tf"
VolumeTf == "hcloud_volume.tf"
AttachmentTf == "hcloud_volume_attachment.tf"
CloudInit == "cloud-init.yml"
PrivateKeyFile == ".ssh/private"
PublicKeyFile == ".ssh/pub"
TfState == "terraform.tfstate"

TerraformInit == "terraform init"
TerraformApply == "terraform apply -auto-approve"
TerraformDestroy == "terraform destroy -auto-approve"

\* The commands of apply in the other order.
commandsReversed == <<TerraformApply, TerraformInit>>

\* create_server_config.mjs:150-153, the commands of apply in their order
commands == <<TerraformInit, TerraformApply>>

\* The files of the output folder itself that end in .tf.
Descriptors == {ProviderTf, ServerTf, SSHKeyTf, VolumeTf, AttachmentTf}

\* create_server_config.mjs:205-220, clean(ctx.output, { recursive: false,
\* extensions: ['.tf'] }): the .tf files of the folder itself are removed.
clean(fs) == [p \in {q \in DOMAIN fs : q[1] \notin Descriptors} |-> fs[p]]

SSHKeys == 1..Len(cfg.sshKeys)
Volumes == 1..Len(cfg.volumes)

\* Server.getSSHKeys(ctx, { public: true }), part_003:396-406: the names of
\* the server's keys that have a public key; a name without a key is skipped.
PublicKeyNames(server) ==
    With(SelectSeq(cfg.sshKeys,
                   LAMBDA key : key.public /\ \E k \in 1..Len(server.sshKeys) :
                                                  server.sshKeys[k] = key.name),
         LAMBDA keys : [k \in 1..Len(keys) |-> keys[k].name])

\* A variant of serversWithVolume under which every volume is on the first
\* server only.
firstServerOnly(servers, name) == <<servers[1]>>

\* create_server_config.mjs:122, the servers that list the volume
serversWithVolume(servers, name) ==
    SelectSeq(servers, LAMBDA server : \E k \in 1..Len(server.volumes) :
                                           server.volumes[k] = name)

\* create_server_config.mjs:123-124
VolumeError(volume) ==
    With(Len(serversWithVolume(cfg.servers, volume.name)),
         LAMBDA n : IF n = 0
                    THEN [kind |-> "not attached to any server", volume |-> volume.name]
                    ELSE IF n > 1
                    THEN [kind |-> "attached to multiple servers", volume |-> volume.name]
                    ELSE NoError)

\* The task of every volume up to its first await, create_server_config.mjs:
\* 120-126: it has thrown, or volume.write has been called.
VolumeTasks ==
    [v \in Volumes |-> IF VolumeError(cfg.volumes[v]) = NoError THEN "writing" ELSE "rejected"]

\* The pairs <<server, volumeName>> of the two loops of
\* writeHCloudVolumeAttachments, create_server_config.mjs:229-231, from the
\* s-th server on.
RECURSIVE AttachmentsFrom(_)
AttachmentsFrom(s) ==
    IF s > Len(cfg.servers) THEN <<>>
    ELSE [k \in 1..Len(cfg.servers[s].volumes) |-> <<s, cfg.servers[s].volumes[k]>>]
         \o AttachmentsFrom(s + 1)

\* The command rejects with error unless it has rejected before; at is the
\* phase it was in.
SrvFail(state, error) ==
    IF state.phase = "failed" THEN state
    ELSE [state EXCEPT !.phase = "failed", !.at = state.phase, !.error = error]

\* create_server_config.mjs:89-116 up to the first await of every task: the
\* .tf files of an earlier run are removed, hcloud.yml is copied and
\* hcloud_provider.tf is written; sshKey.write and server.write are called.
Begin ==
    /\ srv.phase = "start"
    /\ files' = writeFile(writeFile(clean(files), Path(HCloudYml, <<>>), "copy"),
                          Path(ProviderTf, <<>>), "provider")
    /\ srv' = [srv EXCEPT !.phase = "resources",
                          !.key = [k \in SSHKeys |-> "writing"],
                          !.server = [s \in Servers |-> "writing"]]
    /\ UNCHANGED <<cfg, svc, px, parseVars, unitVars>>

\* SSHKey.write, part_003:612-637, awaited by the task of the key: the key
\* files, and hcloud_ssh_key_<name>.tf when there is a public key. A template
\* that throws rejects the task and with it the command.
WriteSSHKey(k) ==
    /\ srv.key[k] = "writing"
    /\ ~srv.exited
    /\ \E key \in {cfg.sshKeys[k]} :
         IF key.throws
         THEN /\ srv' = SrvFail([srv EXCEPT !.key[k] = "failed"],
                                [kind |-> "template", key |-> key.name])
              /\ UNCHANGED files
         ELSE /\ \E f1 \in {IF key.private
                            THEN writeFile(files, Path(PrivateKeyFile, key.name), "key")
                            ELSE files} :
                 files' = IF key.public
                          THEN writeFile(writeFile(f1, Path(PublicKeyFile, key.name), "key"),
                                         Path(SSHKeyTf, key.name), [name |-> key.name])
                          ELSE f1
              /\ srv' = [srv EXCEPT !.key[k] = "written"]
    /\ UNCHANGED <<cfg, svc, px, parseVars, unitVars>>

\* Server.write, part_003:374-386, which the task of the server calls and
\* does not await (create_server_config.mjs:112): cloud-init.yml and
\* hcloud_server_<name>.tf are written at some time while the process runs.
WriteServer(s) ==
    /\ srv.server[s] = "writing"
    /\ ~srv.exited
    /\ files' = writeFile(writeFile(files, Path(CloudInit, <<>>), "copy"),
                          Path(ServerTf, cfg.servers[s].name),
                          [name |-> cfg.servers[s].name,
                           ssh_keys |-> PublicKeyNames(cfg.servers[s])])
    /\ srv' = [srv EXCEPT !.server[s] = "written"]
    /\ UNCHANGED <<cfg, svc, px, parseVars, unitVars>>

\* create_server_config.mjs:116-129: every task of the first Promise.all has
\* resolved, and the task of every volume runs up to its first await. The
\* first volume in ctx.volumes that is not on exactly one server rejects the
\* second Promise.all.
StartVolumes ==
    /\ srv.phase = "resources"
    /\ \A k \in SSHKeys : srv.key[k] = "written"
    /\ \E tasks \in {VolumeTasks} :
       \E rejected \in {{v \in Volumes : tasks[v] = "rejected"}} :
         srv' = IF rejected = {}
                THEN [srv EXCEPT !.phase = "volumes", !.volume = tasks]
                ELSE SrvFail([srv EXCEPT !.phase = "volumes", !.volume = tasks],
                             VolumeError(cfg.volumes[CHOOSE v \in rejected :
                                                         \A w \in rejected : v <= w]))
    /\ UNCHANGED <<cfg, files, svc, px, parseVars, unitVars>>

\* Volume.write, Volume.mjs:107-113, hcloud_volume_<name>.tf
WriteVolume(v) ==
    /\ srv.volume[v] = "writing"
    /\ ~srv.exited
    /\ files' = writeFile(files, Path(VolumeTf, cfg.volumes[v].name),
                          [name |-> cfg.volumes[v].name,
                           server |-> serversWithVolume(cfg.servers, cfg.volumes[v].name)[1].name])
    /\ srv' = [srv EXCEPT !.volume[v] = "written"]
    /\ UNCHANGED <<cfg, svc, px, parseVars, unitVars>>

\* create_server_config.mjs:129-131, every volume task has resolved.
VolumesWritten ==
    /\ srv.phase = "volumes"
    /\ \A v \in Volumes : srv.volume[v] = "written"
    /\ srv' = [srv EXCEPT !.phase = "attachments"]
    /\ UNCHANGED <<cfg, files, svc, px, parseVars, unitVars>>

\* create_server_config.mjs:231-249, one pass of the inner loop of
\* writeHCloudVolumeAttachments.
WriteAttachment ==
    /\ srv.phase = "attachments"
    /\ srv.next <= Len(AttachmentsFrom(1))
    /\ \E pair \in {AttachmentsFrom(1)[srv.next]} :
       \E server \in {cfg.servers[pair[1]]} :
         IF IndexOfName(cfg.volumes, pair[2]) = 0
         THEN /\ srv' = SrvFail(srv, [kind |-> "could not find volume", volume |-> pair[2]])
              /\ UNCHANGED files
         ELSE IF PrivateKeysOf(server) = <<>>
         THEN /\ srv' = SrvFail(srv, [kind |-> "could not find ssh-key", server |-> server.name])
              /\ UNCHANGED files
         ELSE /\ files' = writeFile(files, Path(AttachmentTf, <<server.name, pair[2]>>),
                                    [server |-> server.name, volume |-> pair[2],
                                     key |-> PrivateKeysOf(server)[1].name])
              /\ srv' = [srv EXCEPT !.next = @ + 1,
                                    !.attached = @ \cup {pair[2]}]
    /\ UNCHANGED <<cfg, svc, px, parseVars, unitVars>>

\* create_server_config.mjs:253-257 and 132-135: the volumes no server has
\* attached are an error; else the descriptors are applied unless this is a
\* dry run.
AttachmentsWritten ==
    /\ srv.phase = "attachments"
    /\ srv.next > Len(AttachmentsFrom(1))
    /\ \E unattached \in {SelectSeq(cfg.volumes, LAMBDA volume : volume.name \notin srv.attached)} :
         srv' = IF unattached # <<>>
                THEN SrvFail(srv, [kind |-> "volumes not attached",
                                   volumes |-> [k \in 1..Len(unattached) |-> unattached[k].name]])
                ELSE [srv EXCEPT !.phase = IF cfg.dryRun THEN "mask" ELSE "apply"]
    /\ UNCHANGED <<cfg, files, svc, px, parseVars, unitVars>>

\* apply, create_server_config.mjs:164-177, one pass of the loop over the
\* commands: a command that exits with a code is an error, after terraform
\* destroy if the cluster is to be destroyed on errors.
RunCommand(exitCode) ==
    /\ srv.phase = "apply"
    /\ \E command \in {commands[Len(srv.ran) + 1]} :
         IF exitCode # 0
         THEN /\ srv' = SrvFail([srv EXCEPT !.ran = IF cfg.destroyOnErrors
                                                     THEN @ \o <<command, TerraformDestroy>>
                                                     ELSE Append(@, command)],
                                [kind |-> "command failed", command |-> command])
              /\ UNCHANGED files
         ELSE /\ srv' = [srv EXCEPT !.ran = Append(@, command),
                                    !.phase = IF command = TerraformApply THEN "mask" ELSE @]
              /\ files' = IF command = TerraformApply
                          THEN writeFile(files, Path(TfState, <<>>), "state")
                          ELSE files
    /\ UNCHANGED <<cfg, svc, px, parseVars, unitVars>>

\* create_server_config.mjs:138 and mask, 185-196: terraform.tfstate is
\* masked if masking is on and the file exists.
Mask ==
    /\ srv.phase = "mask"
    /\ files' = IF cfg.mask /\ exists(files, Path(TfState, <<>>))
                THEN writeFile(files, Path(TfState, <<>>), "masked")
                ELSE files
    /\ srv' = [srv EXCEPT !.phase = "done"]
    /\ UNCHANGED <<cfg, svc, px, parseVars, unitVars>>

\* hcloud, create_server_config.mjs:311-314: the error of the command is
\* printed and the process exits, with it every write that has not happened.
ProcessExits ==
    /\ srv.phase = "failed"
    /\ ~srv.exited
    /\ srv' = [srv EXCEPT !.exited = TRUE]
    /\ UNCHANGED <<cfg, files, svc, px, parseVars, unitVars>>

-----------------------------------------------------------------------------
(* The configurations create_server_config is run on *)

NameV == <<"v">>
NameW == <<"w">>
NameDeploy == <<"d">>

KeyOf(name, private, public, throws) ==
    [name |-> name, private |-> private, public |-> public, throws |-> throws]

\* What hcloud.yml says: the ssh keys k (whose template may throw) and d
\* (public only), the volumes v and perhaps w, and two servers.
ServerConfig(throws, volumes, k1, v1, v2, dryRun, destroyOnErrors, mask) ==
    [servers |-> <<ServerOf(NameS1, <<"1">>, k1, <<>>, v1),
                   ServerOf(NameS2, <<"2">>, <<NameAdmin>>, <<>>, v2)>>,
     services |-> <<>>,
     sshKeys |-> <<KeyOf(NameAdmin, TRUE, TRUE, throws), KeyOf(NameDeploy, FALSE, TRUE, FALSE)>>,
     volumes |-> [k \in 1..Len(volumes) |-> [name |-> volumes[k]]],
     force |-> FALSE,
     dryRun |-> dryRun,
     destroyOnErrors |-> destroyOnErrors,
     mask |-> mask,
     existing |-> {}]

\* What the output folder holds of an earlier run.
EarlierRun ==
    [p \in {Path(VolumeTf, NameV), Path(VolumeTf, NameW), Path(TfState, <<>>)} |-> "earlier"]

ServerInit ==
    /\ \E throws \in BOOLEAN,
          volumes \in {<<NameV>>, <<NameV, NameW>>},
          k1 \in {<<NameAdmin>>, <<NameAdmin, NameGhost>>, <<NameDeploy>>},
          v1 \in {<<>>, <<NameV>>, <<NameV, NameW>>, <<NameV, NameGhost>>},
          v2 \in {<<>>, <<NameV>>, <<NameW>>},
          dryRun \in BOOLEAN,
          destroyOnErrors \in BOOLEAN,
          mask \in BOOLEAN :
            /\ cfg = ServerConfig(throws, volumes, k1, v1, v2, dryRun, destroyOnErrors, mask)
            /\ srv = [phase |-> "start", at |-> "none", error |-> NoError,
                      key |-> [k \in 1..2 |-> "start"],
                      server |-> [s \in 1..2 |-> "start"],
                      volume |-> [v \in 1..Len(volumes) |-> "start"],
                      next |-> 1, attached |-> {}, ran |-> <<>>, exited |-> FALSE]
    /\ files \in {NoFiles, EarlierRun}
    /\ svc = IdleSvc
    /\ px = IdlePx
    /\ content = <<>>
    /\ ctxReserved = FALSE
    /\ throwOnUndefined = TRUE
    /\ pState = "idle"
    /\ parts = <<>>
    /\ rendered = <<>>
    /\ completed = <<>>
    /\ pResult = Null
    /\ pError = NoError
    /\ resolve = IdleResolve
    /\ portParse = IdlePortParse
    /\ registries = IdleRegistries
    /\ listing = IdleListing
    /\ naming = IdleNaming

ServerNext ==
    \/ Begin
    \/ \E k \in SSHKeys : WriteSSHKey(k)
    \/ \E s \in Servers : WriteServer(s)
    \/ StartVolumes
    \/ \E v \in Volumes : WriteVolume(v)
    \/ VolumesWritten
    \/ WriteAttachment
    \/ AttachmentsWritten
    \/ \E exitCode \in {0, 1} : RunCommand(exitCode)
    \/ Mask
    \/ ProcessExits

SpecServer == ServerInit /\ [][ServerNext]_vars

-----------------------------------------------------------------------------
(* Properties of create_server_config *)

\* The servers whose volumes list the volume called name.
ListedBy(name) ==
    {s \in Servers : \E k \in 1..Len(cfg.servers[s].volumes) :
                         cfg.servers[s].volumes[k] = name}

\* The volumes that zero servers or more than one server list.
MisattachedVolumes == {v \in Volumes : Cardinality(ListedBy(cfg.volumes[v].name)) # 1}

FirstMisattached == CHOOSE v \in MisattachedVolumes : \A w \in MisattachedVolumes : v <= w

VolumeDescriptorOf(v) == Path(VolumeTf, cfg.volumes[v].name)

\* The error of the volume phase about volume v.
NamesVolume(error, v) ==
    /\ error.kind = IF ListedBy(cfg.volumes[v].name) = {}
                    THEN "not attached to any server"
                    ELSE "attached to multiple servers"
    /\ error.volume = cfg.volumes[v].name

PastVolumes == {"attachments", "apply", "mask", "done"}

NamesOf(entities) == {entities[k].name : k \in 1..Len(entities)}

\* The server lists an ssh key or a volume that is not configured.
HasUnresolvedName(server) ==
    \/ \E k \in 1..Len(server.sshKeys) : server.sshKeys[k] \notin NamesOf(cfg.sshKeys)
    \/ \E k \in 1..Len(server.volumes) : server.volumes[k] \notin NamesOf(cfg.volumes)

\* The descriptor of the server or an attachment of one of its volumes is
\* in the output folder.
HasArtifact(server) ==
    \/ exists(files, Path(ServerTf, server.name))
    \/ \E k \in 1..Len(server.volumes) :
         exists(files, Path(AttachmentTf, <<server.name, server.volumes[k]>>))

\* C3: for a server that lists an ssh key or a volume that is not
\* configured, no artifact of the server is ever written and the command
\* does not succeed.
C3_UnresolvedNameFailsBeforeArtifacts ==
    \A s \in Servers :
        HasUnresolvedName(cfg.servers[s]) =>
            /\ ~HasArtifact(cfg.servers[s])
            /\ srv.phase # "done"

-----------------------------------------------------------------------------
(* The image strings of a service, src/classes/Service.mjs:199-200,242-380 *)

\* An image string is made of at most MaxRefPieces of the pieces below.
MaxRefPieces == 5

RefNames == {<<"o">>, <<"r">>}
RefPieces == RefNames \cup {GHCR, <<"/">>, <<":">>, <<"*">>}

ImageStrings == {Concat(s) : s \in SeqUpTo(RefPieces, MaxRefPieces)}

\* What image is before parseImageString has returned.
NoImage == [url |-> Null, org |-> Null, repo |-> Null, tag |-> Null]

\* The registry with and without GITHUB_TOKEN in the environment.
Registries == {Registry, [Registry EXCEPT !.token = FALSE]}

\* Service.mjs:200 and 355-380, parseImageString(imageString): it throws for
\* a string of only '*' and ':'.
CallParseImageString ==
    /\ resolve.pc = "start"
    /\ \E image \in {parseImageString(resolve.imageString)} :
         resolve' = IF image.error # "none"
                    THEN [resolve EXCEPT !.pc = "threw", !.error = image.error]
                    ELSE [resolve EXCEPT !.pc = "parsed",
                                         !.image = [url |-> image.url, org |-> image.org,
                                                    repo |-> image.repo, tag |-> image.tag]]
    /\ UNCHANGED <<parseVars, cfg, files, svc, px, srv, portParse, registries, listing, naming>>

\* Service.mjs:200 and 242-347, getImageFlatMap(image, env): the images the
\* string stands for and the number of requests to the registry.
CallGetImageFlatMap ==
    /\ resolve.pc = "parsed"
    /\ \E result \in {getImageFlatMap(resolve.image, resolve.registry)} :
         resolve' = IF result.error # "none"
                    THEN [resolve EXCEPT !.pc = "threw", !.error = result.error,
                                         !.calls = result.calls]
                    ELSE [resolve EXCEPT !.pc = "resolved", !.images = result.images,
                                         !.calls = result.calls]
    /\ UNCHANGED <<parseVars, cfg, files, svc, px, srv, portParse, registries, listing, naming>>

ImageInit ==
    /\ \E imageString \in ImageStrings, registry \in Registries :
         resolve = [pc |-> "start", imageString |-> imageString, registry |-> registry,
                    image |-> NoImage, images |-> <<>>, calls |-> 0, error |-> "none"]
    /\ portParse = IdlePortParse
    /\ registries = IdleRegistries
    /\ listing = IdleListing
    /\ naming = IdleNaming
    /\ cfg = IdleCfg
    /\ files = NoFiles
    /\ svc = IdleSvc
    /\ px = IdlePx
    /\ srv = IdleSrv
    /\ content = <<>>
    /\ ctxReserved = FALSE
    /\ throwOnUndefined = TRUE
    /\ pState = "idle"
    /\ parts = <<>>
    /\ rendered = <<>>
    /\ completed = <<>>
    /\ pResult = Null
    /\ pError = NoError

ImageNext ==
    \/ CallParseImageString
    \/ CallGetImageFlatMap

SpecImage == ImageInit /\ [][ImageNext]_vars

-----------------------------------------------------------------------------
(* Properties of the image strings *)

ImageOf(url, org, repo, tag) == [url |-> url, org |-> org, repo |-> repo, tag |-> tag]

\* C11: for an image string org/repo:tag without wildcards the resolution
\* ends with exactly one image, of that organization, repository and tag at
\* the default registry ghcr.io, and no request to the registry was made.
C11_OrgRepoTagResolvesToOneImage ==
    \A org \in RefNames, repo \in RefNames, tag \in RefNames :
        (/\ resolve.pc \in {"resolved", "threw"}
         /\ resolve.imageString = org \o <<"/">> \o repo \o <<":">> \o tag)
        => /\ resolve.pc = "resolved"
           /\ resolve.images = <<ImageOf(GHCR, org, repo, tag)>>
           /\ resolve.calls = 0

\* C12: an image string without '/' and ':' is parsed as the tag, and of
\* repo:tag the text before ':' is parsed as the repository; in both the
\* registry url is the default ghcr.io.
C12_ShortFormsKeepDefaultRegistry ==
    resolve.pc \in {"parsed", "resolved", "threw"} =>
        /\ \A tag \in RefNames :
               resolve.imageString = tag =>
                   /\ resolve.image.tag = tag
                   /\ resolve.image.url = GHCR
        /\ \A repo \in RefNames, tag \in RefNames :
               resolve.imageString = repo \o <<":">> \o tag =>
                   /\ resolve.image.repo = repo
                   /\ resolve.image.tag = tag
                   /\ resolve.image.url = GHCR

-----------------------------------------------------------------------------
(* getImagePorts step by step, src/classes/Service.mjs:390-435 *)

\* A port string has at most MaxPortLen characters.
MaxPortLen == 5

PortStringInputs == StrUpTo({"8", "9", ":"}, MaxPortLen)

Strategy == <<"l">>
Domain == <<"d">>
ProxyPaths == {<<"/">>, <<"/", "a">>, <<"/", "a", "/", "a">>}

\* strategy://domain:port_string/path, every part but the domain optional
ProxyStringOf(strategy, segment, path) ==
    (IF strategy = Null THEN <<>> ELSE strategy \o SchemaSeparator)
        \o Domain
        \o (IF segment = Null THEN <<>> ELSE <<":">> \o segment)
        \o (IF path = Null THEN <<>> ELSE path)

\* The parts a proxy string is written from; all null where there is none.
ProxyParts ==
    [strategy : {Null, Strategy},
     segment : {Null} \cup PortStringInputs,
     path : {Null} \cup ProxyPaths]

NoParts == [strategy |-> Null, segment |-> Null, path |-> Null]

ProxyStringFrom(given) == ProxyStringOf(given.strategy, given.segment, given.path)

\* The ports and proxies of the service: one port string, one proxy string,
\* or one or two port strings with a proxy string to merge into them.
PortInputs ==
    {[service |-> [ports |-> <<p>>, proxies |-> <<>>], given |-> NoParts] :
         p \in PortStringInputs}
        \cup {[service |-> [ports |-> <<>>, proxies |-> <<ProxyStringFrom(g)>>], given |-> g] :
                 g \in ProxyParts}
        \cup UNION {{[service |-> [ports |-> <<p>>, proxies |-> <<ProxyStringFrom(g)>>],
                      given |-> g] :
                         p \in {<<"9">>, <<"8", ":", "9">>, <<"8", ":", "8", ":", "9">>}} :
                     g \in {h \in ProxyParts : h.strategy = Null /\ h.path = Null}}
        \cup UNION {{[service |-> [ports |-> ps, proxies |-> <<ProxyStringFrom(g)>>],
                      given |-> g] :
                         ps \in {<<<<"8">>, <<"8", ":", "9">>>>,
                                 <<<<"9", ":", "9", ":", "9">>, <<"9">>>>}} :
                     g \in {h \in ProxyParts : h.strategy = Null /\ h.path = Null}}

\* Service.mjs:392-414: every entry of service.ports is parsed; one with
\* more than three fields throws.
ParseStaticPorts ==
    /\ portParse.pc = "start"
    /\ \E ports \in {portParse.service.ports} :
         portParse' =
            IF \E k \in 1..Len(ports) : StaticPortInvalid(ports[k])
            THEN [portParse EXCEPT !.pc = "threw", !.error = "invalid port configuration"]
            ELSE [portParse EXCEPT !.pc = "proxies",
                                   !.ports = [k \in 1..Len(ports) |-> StaticPort(ports[k])]]
    /\ UNCHANGED <<parseVars, cfg, files, svc, px, srv, resolve, registries, listing, naming>>

\* Service.mjs:418-429, one pass of the loop over service.proxies: the proxy
\* string is parsed and merged into the descriptors.
MergeProxy ==
    /\ portParse.pc = "proxies"
    /\ portParse.k <= Len(portParse.service.proxies)
    /\ \E proxyString \in {portParse.service.proxies[portParse.k]} :
         portParse' = [portParse EXCEPT
                          !.details = parseProxyString(parseStatic(proxyString)),
                          !.ports = ApplyProxy(portParse.ports, proxyString),
                          !.k = @ + 1]
    /\ UNCHANGED <<parseVars, cfg, files, svc, px, srv, resolve, registries, listing, naming>>

\* Service.mjs:431-434: the descriptors, or those of the ports the image
\* exposes when there are none.
ReturnPorts ==
    /\ portParse.pc = "proxies"
    /\ portParse.k > Len(portParse.service.proxies)
    /\ portParse' = [portParse EXCEPT
                        !.pc = "returned",
                        !.ports = IF portParse.ports # <<>> THEN portParse.ports
                                  ELSE getImagePortsFromContainer(ExposedPorts)]
    /\ UNCHANGED <<parseVars, cfg, files, svc, px, srv, resolve, registries, listing, naming>>

PortsInit ==
    /\ \E input \in PortInputs :
         portParse = [pc |-> "start", service |-> input.service, given |-> input.given,
                      ports |-> <<>>, k |-> 1, details |-> NoDetails, error |-> "none"]
    /\ resolve = IdleResolve
    /\ registries = IdleRegistries
    /\ listing = IdleListing
    /\ naming = IdleNaming
    /\ cfg = IdleCfg
    /\ files = NoFiles
    /\ svc = IdleSvc
    /\ px = IdlePx
    /\ srv = IdleSrv
    /\ content = <<>>
    /\ ctxReserved = FALSE
    /\ throwOnUndefined = TRUE
    /\ pState = "idle"
    /\ parts = <<>>
    /\ rendered = <<>>
    /\ completed = <<>>
    /\ pResult = Null
    /\ pError = NoError

PortsNext ==
    \/ ParseStaticPorts
    \/ MergeProxy
    \/ ReturnPorts

SpecPorts == PortsInit /\ [][PortsNext]_vars

-----------------------------------------------------------------------------
(* Port descriptors, properties *)

\* The places of the ':' in a text.
ColonsAt(s) == {i \in 1..Len(s) : s[i] = ":"}

\* The text between two places.
Between(s, i, j) == SubSeq(s, i + 1, j - 1)

\* The one port string of the service has been parsed and no proxy string
\* has changed the result.
StaticPortParsed ==
    /\ portParse.pc \in {"proxies", "returned"}
    /\ Len(portParse.service.ports) = 1
    /\ portParse.service.proxies = <<>>

IsPort(port, proxyPort, host, container) ==
    /\ port.proxyPort = proxyPort
    /\ port.host = host
    /\ port.container = container

\* C13: a port string of one field f is parsed to proxyPort f, host null,
\* container f; one of two fields p:c to proxyPort p, host null, container c;
\* one of three fields p:h:c with p # h to proxyPort p, host h, container c.
\* None of them is rejected.
C13_RightmostFieldIsContainer ==
    (portParse.pc \in {"proxies", "returned", "threw"}
        /\ Len(portParse.service.ports) = 1
        /\ portParse.service.proxies = <<>>) =>
        LET s == portParse.service.ports[1]
            n == Len(s) + 1
            at == ColonsAt(s)
        IN  /\ (at = {}) =>
                  /\ StaticPortParsed
                  /\ IsPort(portParse.ports[1], s, Null, s)
            /\ \A i \in at :
                  (at = {i}) =>
                      /\ StaticPortParsed
                      /\ IsPort(portParse.ports[1], Between(s, 0, i), Null, Between(s, i, n))
            /\ \A i, j \in at :
                  (at = {i, j} /\ i < j /\ Between(s, 0, i) # Between(s, i, j)) =>
                      /\ StaticPortParsed
                      /\ IsPort(portParse.ports[1], Between(s, 0, i), Between(s, i, j),
                                Between(s, j, n))

\* Each of the three forms has been parsed.
C13_Witness ==
    /\ StaticPortParsed
    /\ portParse.service.ports[1] = <<"8", ":", "9", ":", "8">>
    /\ IsPort(portParse.ports[1], <<"8">>, <<"9">>, <<"8">>)

\* The port string has three fields, the first equal to the second.
EqualProxyAndHost(s) ==
    \E i, j \in ColonsAt(s) :
        ColonsAt(s) = {i, j} /\ i < j /\ Between(s, 0, i) = Between(s, i, j)

\* C14 as stated: a port string p:p:c is parsed to a descriptor whose host is
\* null.
C14_EqualProxyAndHostUnsetsHost ==
    (StaticPortParsed /\ EqualProxyAndHost(portParse.service.ports[1])) =>
        portParse.ports[1].host = Null

\* C14: a port string p:p:c is parsed to a descriptor whose proxyPort is null,
\* whose host is p and whose container is c.
C14_EqualProxyAndHostUnsetsProxyPort ==
    StaticPortParsed =>
        LET s == portParse.service.ports[1]
        IN  \A i, j \in ColonsAt(s) :
                (ColonsAt(s) = {i, j} /\ i < j /\ Between(s, 0, i) = Between(s, i, j)) =>
                    IsPort(portParse.ports[1], Null, Between(s, i, j), Between(s, j, Len(s) + 1))

C14_Witness ==
    /\ StaticPortParsed
    /\ portParse.service.ports[1] = <<"8", ":", "8", ":", "9">>
    /\ IsPort(portParse.ports[1], Null, <<"8">>, <<"9">>)

\* The one proxy string of a service without port strings has been parsed.
ProxyStringParsed ==
    /\ portParse.pc = "proxies"
    /\ portParse.k = 2
    /\ portParse.service.ports = <<>>

\* Both the same, or both no value.
SameOrUnset(a, b) == a = b \/ ({a, b} \subseteq {Null, Undefined})

\* The segment has one, two or three fields.
UpToThreeFields(segment) == Cardinality(ColonsAt(segment)) <= 2

\* C15: strategy://domain:segment/path is parsed to the strategy (null
\* without one), the domain, the path (/ without one), and, for a segment of
\* one, two or three fields, the proxyPort, hostPort and containerPort that
\* the rule for port strings gives for the segment.
C15_ProxyStringFollowsStaticRule ==
    ProxyStringParsed =>
        LET given == portParse.given
            details == portParse.details
        IN  /\ details.schema = given.strategy
            /\ details.host = Domain
            /\ details.path = (IF given.path = Null THEN <<"/">> ELSE given.path)
            /\ (given.segment # Null /\ UpToThreeFields(given.segment)) =>
                  With(StaticPort(given.segment), LAMBDA port :
                      /\ SameOrUnset(details.proxyPort, port.proxyPort)
                      /\ SameOrUnset(details.hostPort, port.host)
                      /\ SameOrUnset(details.containerPort, port.container))

\* C16: a proxy string that is a domain and nothing else is parsed to
\* proxyPort 80, containerPort 80, no hostPort and path /, and the descriptor
\* made of it has container 80.
C16_BareDomainDefaultsTo80 ==
    (ProxyStringParsed /\ portParse.given = NoParts) =>
        /\ portParse.details.proxyPort = <<"8", "0">>
        /\ portParse.details.containerPort = <<"8", "0">>
        /\ portParse.details.hostPort \in {Null, Undefined}
        /\ portParse.details.path = <<"/">>
        /\ Len(portParse.ports) = 1
        /\ portParse.ports[1].container = <<"8", "0">>

-----------------------------------------------------------------------------
(* The entity classes Server, SSHKey, Service and Volume: setters,
   constructors and the static #instances registries *)

\* JavaScript values given to constructors and setters.
JSNull == [type |-> "null"]
JSUndefined == [type |-> "undefined"]
JSObject == [type |-> "object"]
JSString(s) == [type |-> "string", str |-> s]
JSArray(a) == [type |-> "array", arr |-> a]
JSNumber(n) == [type |-> "number", num |-> n]

typeof(value) == IF value.type \in {"null", "array"} THEN "object" ELSE value.type

isArray(value) == value.type = "array"

JSTruthy(value) ==
    CASE value.type = "string" -> value.str # <<>>
      [] value.type = "number" -> value.num # 0
      [] value.type \in {"null", "undefined"} -> FALSE
      [] OTHER -> TRUE

\* a || b
OrElse(a, b) == IF JSTruthy(a) THEN a ELSE b

\* /^[a-z0-9][a-z0-9-]{0,61}[a-z0-9]$/, part_003:208
ValidHostname(s) ==
    /\ Len(s) >= 2
    /\ Len(s) <= 63
    /\ \A i \in 1..Len(s) : s[i] \in LowerCaseLetters \cup Digits \cup {"-"}
    /\ s[1] # "-"
    /\ s[Len(s)] # "-"

\* What a setter checks: whether the field may be assigned once only
\* ("... already set"), and the kind of value it takes.
ServerSetters ==
    [name |-> [once |-> FALSE, kind |-> "hostname"],
     serverType |-> [once |-> FALSE, kind |-> "string"],
     location |-> [once |-> FALSE, kind |-> "string"],
     sshKeys |-> [once |-> TRUE, kind |-> "nonEmptyArray"],
     services |-> [once |-> TRUE, kind |-> "nonEmptyArray"],
     volumes |-> [once |-> TRUE, kind |-> "array"],
     ports |-> [once |-> TRUE, kind |-> "array"],
     environment |-> [once |-> TRUE, kind |-> "object"]]

SSHKeySetters ==
    [name |-> [once |-> FALSE, kind |-> "string"],
     privateKey |-> [once |-> TRUE, kind |-> "string"],
     publicKey |-> [once |-> TRUE, kind |-> "string"],
     user |-> [once |-> FALSE, kind |-> "string"]]

ServiceSetters ==
    [name |-> [once |-> FALSE, kind |-> "string"],
     images |-> [once |-> TRUE, kind |-> "nonEmptyArray"],
     ports |-> [once |-> TRUE, kind |-> "array"],
     proxies |-> [once |-> TRUE, kind |-> "array"],
     environment |-> [once |-> TRUE, kind |-> "object"],
     volumes |-> [once |-> TRUE, kind |-> "array"]]

VolumeSetters ==
    [name |-> [once |-> FALSE, kind |-> "string"],
     size |-> [once |-> TRUE, kind |-> "number"],
     path |-> [once |-> TRUE, kind |-> "string"]]

\* The private fields of a new instance.
NewServerFields ==
    [name |-> JSNull, serverType |-> JSNull, location |-> JSNull, sshKeys |-> JSNull,
     services |-> JSNull, volumes |-> JSNull, ports |-> JSNull, environment |-> JSNull]
NewSSHKeyFields ==
    [name |-> JSNull, privateKey |-> JSNull, publicKey |-> JSNull,
     user |-> JSString(<<"r", "o", "o", "t">>)]
NewServiceFields ==
    [name |-> JSNull, images |-> JSNull, ports |-> JSNull, proxies |-> JSNull,
     environment |-> JSNull, volumes |-> JSNull]
NewVolumeFields == [name |-> JSNull, size |-> JSNull, path |-> JSNull]

\* The type test of a setter.
HasKind(kind, value) ==
    CASE kind \in {"string", "hostname"} -> typeof(value) = "string"
      [] kind \in {"array", "nonEmptyArray"} -> isArray(value)
      [] kind = "number" -> typeof(value) = "number"
      [] kind = "object" -> typeof(value) = "object" /\ value # JSNull

Returned(this) == [threw |-> FALSE, error |-> "none", names |-> JSNull, this |-> this]

\* names is the name the message of the error shows.
Thrown(this, error, names) == [threw |-> TRUE, error |-> error, names |-> names, this |-> this]

\* this[field] = value through the setter of the field.
Assign(setters, this, field, value) ==
    IF setters[field].once /\ this[field] # JSNull
    THEN Thrown(this, "already set", JSNull)
    ELSE IF ~HasKind(setters[field].kind, value)
    THEN Thrown(this, "TypeError", IF field = "name" THEN value ELSE this.name)
    ELSE IF setters[field].kind = "hostname" /\ ~ValidHostname(value.str)
    THEN Thrown(this, "Invalid server name", value)
    ELSE IF setters[field].kind = "nonEmptyArray" /\ value.arr = <<>>
    THEN Thrown(this, "must not be empty", JSNull)
    ELSE Returned([this EXCEPT ![field] = value])

\* A variant of AssignAll that goes on after an assignment has thrown.
RECURSIVE AssignAllCaught(_, _, _)
AssignAllCaught(setters, this, assignments) ==
    IF assignments = <<>> THEN Returned(this)
    ELSE With(Assign(setters, this, Head(assignments)[1], Head(assignments)[2]), LAMBDA r :
             AssignAllCaught(setters, r.this, Tail(assignments)))

\* The assignments of a constructor, in order, up to the first that throws.
RECURSIVE AssignAll(_, _, _)
AssignAll(setters, this, assignments) ==
    IF assignments = <<>> THEN Returned(this)
    ELSE With(Assign(setters, this, Head(assignments)[1], Head(assignments)[2]), LAMBDA r :
             IF r.threw THEN r ELSE AssignAll(setters, r.this, Tail(assignments)))

\* if (value) this.field = value
IfSet(field, value) == IF JSTruthy(value) THEN <<<<field, value>>>> ELSE <<>>

\* new Server(name, options), part_003:340-351, up to the push.
NewServer(name, options) ==
    AssignAll(ServerSetters, NewServerFields,
              <<<<"name", name>>,
                <<"serverType", options.server_type>>,
                <<"sshKeys", options.ssh_keys>>,
                <<"services", options.services>>,
                <<"location", OrElse(options.location, JSString(<<>>))>>,
                <<"ports", OrElse(options.ports, JSArray(<<>>))>>,
                <<"environment", OrElse(options.environment, JSObject)>>,
                <<"volumes", OrElse(options.volumes, JSArray(<<>>))>>>>)

\* The constructor without the test for a key.
NewSSHKeyUnchecked(name, options) ==
    AssignAll(SSHKeySetters, NewSSHKeyFields,
              <<<<"name", name>>,
                <<"user", OrElse(options.user, JSString(<<"r", "o", "o", "t">>))>>>>
                  \o IfSet("privateKey", options.private_key)
                  \o IfSet("publicKey", options.public_key))

\* new SSHKey(name, options), part_003:595-606, up to the push.
NewSSHKey(name, options) ==
    With(AssignAll(SSHKeySetters, NewSSHKeyFields,
                   <<<<"name", name>>,
                     <<"user", OrElse(options.user, JSString(<<"r", "o", "o", "t">>))>>>>
                       \o IfSet("privateKey", options.private_key)
                       \o IfSet("publicKey", options.public_key)), LAMBDA r :
        IF r.threw THEN r
        ELSE IF ~(JSTruthy(r.this.privateKey) \/ JSTruthy(r.this.publicKey))
        THEN Thrown(r.this, "Either private_key or public_key must be set", r.this.name)
        ELSE r)

\* new Service(name, options), Service.mjs:174-183, up to the push.
NewService(name, options) ==
    AssignAll(ServiceSetters, NewServiceFields,
              <<<<"name", name>>,
                <<"images", options.images>>,
                <<"ports", OrElse(options.ports, JSArray(<<>>))>>,
                <<"proxies", OrElse(options.proxies, JSArray(<<>>))>>,
                <<"environment", OrElse(options.environment, JSObject)>>,
                <<"volumes", OrElse(options.volumes, JSArray(<<>>))>>>>)

\* new Volume(name, options), Volume.mjs:94-100. The constructor does not
\* push the instance to Volume.#instances.
NewVolume(name, options) ==
    With(AssignAll(VolumeSetters, NewVolumeFields,
                   <<<<"name", name>>, <<"size", options.size>>, <<"path", options.path>>>>),
         LAMBDA r :
        IF r.threw THEN r
        ELSE IF ~JSTruthy(r.this.size)
        THEN Thrown(r.this, "does not have a size", r.this.name)
        ELSE r)

\* The number of constructor calls and assignments of a behaviour.
MaxCalls == 3

CtorNames == {JSString(<<"a", "b">>), JSString(<<"c", "d">>), JSString(<<"a">>), JSNumber(7)}

ServerOptions ==
    [server_type : {JSString(<<"c", "x">>), JSUndefined},
     ssh_keys : {JSArray(<<NameAdmin>>), JSArray(<<>>)},
     services : {JSArray(<<NameA>>), JSUndefined},
     location : {JSString(<<"l">>), JSUndefined},
     ports : {JSUndefined},
     environment : {JSUndefined},
     volumes : {JSUndefined}]

SSHKeyOptions ==
    [private_key : {JSString(<<"p">>), JSString(<<>>), JSNumber(7), JSUndefined},
     public_key : {JSString(<<"q">>), JSUndefined},
     user : {JSUndefined}]

ServiceOptions ==
    [images : {JSArray(<<<<"i">>>>), JSArray(<<>>), JSUndefined},
     ports : {JSUndefined},
     proxies : {JSUndefined},
     environment : {JSUndefined},
     volumes : {JSUndefined}]

VolumeOptions ==
    [size : {JSNumber(1), JSNumber(0), JSUndefined},
     path : {JSString(<<"/">>), JSUndefined}]

\* The values assigned to a field of a constructed server.
AssignedValues == {JSString(<<"e", "f">>), JSArray(<<NameB>>), JSObject, JSNumber(7)}

ServerFields == DOMAIN ServerSetters

NoCall ==
    [call |-> "none", at |-> 0, name |-> JSUndefined, field |-> "", value |-> JSUndefined,
     old |-> JSUndefined, threw |-> FALSE, error |-> "none", names |-> JSNull]

\* The call new class(name, options) with its outcome r.
CallOf(class, name, r) ==
    [call |-> class, at |-> 0, name |-> name, field |-> "", value |-> JSUndefined,
     old |-> JSUndefined, threw |-> r.threw, error |-> r.error, names |-> r.names]

\* part_003:340-351: the instance is pushed when no setter has thrown.
ConstructServer(name, options) ==
    /\ registries.pc = "ready"
    /\ registries.calls < MaxCalls
    /\ \E r \in {NewServer(name, options)} :
         registries' = [registries EXCEPT
                           !.Server = IF r.threw THEN @ ELSE Append(@, r.this),
                           !.last = CallOf("Server", name, r),
                           !.calls = @ + 1]
    /\ UNCHANGED <<parseVars, cfg, files, svc, px, srv, resolve, portParse, listing, naming>>

\* part_003:595-606: the instance is pushed when no setter has thrown and one
\* of the keys is set.
ConstructSSHKey(name, options) ==
    /\ registries.pc = "ready"
    /\ registries.calls < MaxCalls
    /\ \E r \in {NewSSHKey(name, options)} :
         registries' = [registries EXCEPT
                           !.SSHKey = IF r.threw THEN @ ELSE Append(@, r.this),
                           !.last = CallOf("SSHKey", name, r),
                           !.calls = @ + 1]
    /\ UNCHANGED <<parseVars, cfg, files, svc, px, srv, resolve, portParse, listing, naming>>

\* Service.mjs:174-183
ConstructService(name, options) ==
    /\ registries.pc = "ready"
    /\ registries.calls < MaxCalls
    /\ \E r \in {NewService(name, options)} :
         registries' = [registries EXCEPT
                           !.Service = IF r.threw THEN @ ELSE Append(@, r.this),
                           !.last = CallOf("Service", name, r),
                           !.calls = @ + 1]
    /\ UNCHANGED <<parseVars, cfg, files, svc, px, srv, resolve, portParse, listing, naming>>

\* Volume.mjs:94-100: Volume.#instances stays as it is.
ConstructVolume(name, options) ==
    /\ registries.pc = "ready"
    /\ registries.calls < MaxCalls
    /\ \E r \in {NewVolume(name, options)} :
         registries' = [registries EXCEPT
                           !.last = CallOf("Volume", name, r),
                           !.calls = @ + 1]
    /\ UNCHANGED <<parseVars, cfg, files, svc, px, srv, resolve, portParse, listing, naming>>

\* server.field = value on the k-th registered server, part_003:206-326.
AssignServerField(k, field, value) ==
    /\ registries.pc = "ready"
    /\ registries.calls < MaxCalls
    /\ k \in 1..Len(registries.Server)
    /\ \E r \in {Assign(ServerSetters, registries.Server[k], field, value)} :
         registries' = [registries EXCEPT
                           !.Server[k] = r.this,
                           !.last = [call |-> "assign", at |-> k,
                                     name |-> registries.Server[k].name,
                                     field |-> field, value |-> value,
                                     old |-> registries.Server[k][field],
                                     threw |-> r.threw, error |-> r.error, names |-> r.names],
                           !.calls = @ + 1]
    /\ UNCHANGED <<parseVars, cfg, files, svc, px, srv, resolve, portParse, listing, naming>>

EntitiesInit ==
    /\ registries = [pc |-> "ready", Server |-> <<>>, SSHKey |-> <<>>, Service |-> <<>>,
                     Volume |-> <<>>, last |-> NoCall, calls |-> 0]
    /\ listing = IdleListing
    /\ naming = IdleNaming
    /\ resolve = IdleResolve
    /\ portParse = IdlePortParse
    /\ cfg = IdleCfg
    /\ files = NoFiles
    /\ svc = IdleSvc
    /\ px = IdlePx
    /\ srv = IdleSrv
    /\ content = <<>>
    /\ ctxReserved = FALSE
    /\ throwOnUndefined = TRUE
    /\ pState = "idle"
    /\ parts = <<>>
    /\ rendered = <<>>
    /\ completed = <<>>
    /\ pResult = Null
    /\ pError = NoError

EntitiesNext ==
    \/ \E name \in CtorNames, options \in ServerOptions : ConstructServer(name, options)
    \/ \E name \in CtorNames, options \in SSHKeyOptions : ConstructSSHKey(name, options)
    \/ \E name \in CtorNames, options \in ServiceOptions : ConstructService(name, options)
    \/ \E name \in CtorNames, options \in VolumeOptions : ConstructVolume(name, options)
    \/ \E k \in 1..MaxCalls, field \in ServerFields, value \in AssignedValues :
           AssignServerField(k, field, value)

SpecEntities == EntitiesInit /\ [][EntitiesNext]_vars

-----------------------------------------------------------------------------
(* Entity classes, properties *)

HasAKey(key) == JSTruthy(key.privateKey) \/ JSTruthy(key.publicKey)

\* C17: every key in SSHKey.#instances has a private or a public key, and
\* new SSHKey(name, options) with neither throws an error whose message shows
\* the name and leaves SSHKey.#instances as it was.
C17_RegisteredKeysHaveAKey ==
    /\ [](\A k \in 1..Len(registries.SSHKey) : HasAKey(registries.SSHKey[k]))
    /\ [][\A name \in CtorNames, options \in SSHKeyOptions :
             (/\ ~JSTruthy(options.private_key)
              /\ ~JSTruthy(options.public_key)
              /\ registries'.last.call = "SSHKey"
              /\ registries'.last.name = name
              /\ ConstructSSHKey(name, options)) =>
                 /\ registries'.last.threw
                 /\ registries'.last.names = name
                 /\ registries'.SSHKey = registries.SSHKey]_vars

\* A key without private and public key has been refused after one with a
\* key was registered.
C17_Witness ==
    /\ registries.pc = "ready"
    /\ registries.last.call = "SSHKey"
    /\ registries.last.threw
    /\ registries.last.error = "Either private_key or public_key must be set"
    /\ registries.last.names = JSString(<<"a", "b">>)
    /\ Len(registries.SSHKey) = 1

WriteOnceFields == {"serverType", "sshKeys", "services", "volumes"}

\* The value passes the type and content tests of the setter.
Accepted(setters, field, value) ==
    /\ HasKind(setters[field].kind, value)
    /\ setters[field].kind = "hostname" => ValidHostname(value.str)
    /\ setters[field].kind = "nonEmptyArray" => value.arr # <<>>

\* C18: assigning serverType, sshKeys, services or volumes of a constructed
\* server throws and the field keeps its value; assigning name, location,
\* ports or environment a value of the field's type is accepted.
C18_OnlyFourFieldsAssignable ==
    (registries.pc = "ready" /\ registries.last.call = "assign") =>
        LET last == registries.last
            stored == registries.Server[last.at][last.field]
        IN  /\ last.field \in WriteOnceFields => (last.threw /\ stored = last.old)
            /\ (last.field \notin WriteOnceFields
                    /\ Accepted(ServerSetters, last.field, last.value)) =>
                   (~last.threw /\ stored = last.value)

NamesUnique(instances) ==
    \A i, j \in 1..Len(instances) : instances[i].name = instances[j].name => i = j

\* C19: no two instances in the registry of a class have the same name.
C19_NamesUniquePerType ==
    registries.pc = "ready" =>
        /\ NamesUnique(registries.Server)
        /\ NamesUnique(registries.SSHKey)
        /\ NamesUnique(registries.Service)
        /\ NamesUnique(registries.Volume)

-----------------------------------------------------------------------------
(* The three commands, each run on its configurations *)

CommandsInit == ServerInit \/ ServiceInit \/ ProxyInit

\* The steps of the command that was started.
CommandsNext ==
    \/ srv.phase # "idle" /\ ServerNext
    \/ svc.phase # "idle" /\ ServiceNext
    \/ px.pc # "idle" /\ ProxyNext

SpecCommands == CommandsInit /\ [][CommandsNext]_vars

\* C20: in a dry run create_server_config runs no terraform command,
\* create_service_config uploads to and applies on no server, and
\* create_proxy_config runs no command on a server and uploads nothing.
C20_DryRunContactsNoServer ==
    cfg.dryRun =>
        /\ srv.phase # "idle" => (srv.phase # "apply" /\ srv.ran = <<>>)
        /\ svc.phase # "idle" =>
              (svc.phase # "upload" /\ \A s \in Servers : svc.up[s] = "idle")
        /\ px.pc # "idle" => (px.pc \notin {"disable", "apply"} /\ px.remote = {})

\* A dry run of create_service_config has completed with docker-compose.yml
\* of the first server written.
C20_Witness ==
    /\ cfg.dryRun
    /\ svc.phase = "done"
    /\ exists(files, DockerComposeOf(1))

-----------------------------------------------------------------------------
(* The three commands, properties *)

\* C21: a step in which a terraform, scp or ssh command exits with a code
\* other than 0 while force is not set ends in the failure of the command
\* that is running.
C21_NonZeroExitFails ==
    [][/\ (srv.phase = "apply" /\ RunCommand(1)) => srv'.phase = "failed"
       /\ \A s \in Servers :
             (svc.phase = "upload" /\ ~cfg.force /\ uploadAndApply(s, 1)) =>
                 svc'.phase = "failed"
       /\ (px.pc = "ports" /\ ~cfg.dryRun /\ ~cfg.force
               /\ WithoutHostPort(WithDefaultLoadBalancer(px.maps.upstreams)) # {}
               /\ RetrieveHostPorts(1)) => px'.pc = "failed"
       /\ \A copyExit, commandExit \in {0, 1} :
             (/\ px.pc = "disable"
              /\ px.k <= Len(serversWithoutUpstreams(px.maps.byServer))
              /\ ~cfg.force
              /\ copyExit + commandExit > 0
              /\ DisableNginx(copyExit, commandExit)) => px'.pc = "failed"
       /\ \A copyExit, commandExit \in {0, 1} :
             (/\ px.pc = "apply"
              /\ px.k <= Len(px.maps.byServer)
              /\ ~cfg.force
              /\ copyExit + commandExit > 0
              /\ ApplyNginx(copyExit, commandExit)) => px'.pc = "failed"]_vars

\* The commands of a run of apply without terraform destroy.
WithoutDestroy(ran) == SelectSeq(ran, LAMBDA command : command # TerraformDestroy)

IsPrefix(s, t) == Len(s) <= Len(t) /\ SubSeq(t, 1, Len(s)) = s

\* The command of apply has exited with a code.
ApplyFailed == srv.phase = "failed" /\ srv.error.kind = "command failed"

\* C22: the commands run are terraform init, then terraform apply; after one
\* of them has exited with a code none of the two is run; terraform destroy
\* is run once, after the failed command and by the time the error is raised,
\* if the cluster is to be destroyed on errors, and never otherwise.
C22_ApplyOrderAndDestroy ==
    srv.phase # "idle" =>
        /\ IsPrefix(WithoutDestroy(srv.ran), <<TerraformInit, TerraformApply>>)
        /\ ApplyFailed =>
              /\ WithoutDestroy(srv.ran) # <<>>
              /\ WithoutDestroy(srv.ran)[Len(WithoutDestroy(srv.ran))] = srv.error.command
              /\ srv.ran = WithoutDestroy(srv.ran)
                             \o (IF cfg.destroyOnErrors THEN <<TerraformDestroy>> ELSE <<>>)
        /\ ~ApplyFailed => srv.ran = WithoutDestroy(srv.ran)

\* terraform apply has failed after terraform init, and terraform destroy
\* has run.
C22_Witness ==
    /\ srv.phase = "failed"
    /\ srv.error = [kind |-> "command failed", command |-> TerraformApply]
    /\ srv.ran = <<TerraformInit, TerraformApply, TerraformDestroy>>

\* The phases from the volumes on, and those after the volumes.
FromVolumes == {"volumes", "attachments", "apply", "mask", "done"}
AfterVolumes == {"attachments", "apply", "mask", "done"}

\* C23: once the volumes are begun every ssh key and every server has been
\* written, and once the attachments are begun every volume has been written.
C23_PhasesSeparatedByBarriers ==
    /\ srv.phase \in FromVolumes =>
          /\ \A k \in SSHKeys : srv.key[k] = "written"
          /\ \A s \in Servers : srv.server[s] = "written"
    /\ srv.phase \in AfterVolumes => \A v \in Volumes : srv.volume[v] = "written"

\* C24: after a task of the ssh keys and servers, or of the volumes, has
\* failed, no file is written and the command stays failed.
C24_FailedFanOutWritesNothing ==
    [][(srv.phase = "failed" /\ srv.at \in {"resources", "volumes"}) =>
           (files' = files /\ srv'.phase = "failed")]_vars

-----------------------------------------------------------------------------
(* api, src/classes/Service.mjs:252-284: a request to the api of the registry *)

\* Service.mjs:271 and 275
PerPage == 30

\* The registry lists at most MaxItems packages or versions.
MaxItems == 35

\* The registry's page size for a request that names none.
DefaultPerPage == PerPage

\* What the registry holds at the path: a list of items, or an object.
Bodies == {JSArray([i \in 1..n |-> i]) : n \in 0..MaxItems} \cup {JSObject}

Min(a, b) == IF a <= b THEN a ELSE b

\* The body of the response to a request for url.
Respond(body, url) ==
    IF ~isArray(body) THEN body
    ELSE With(IF url.per_page = 0 THEN DefaultPerPage ELSE url.per_page, LAMBDA perPage :
         With(IF url.page = 0 THEN 1 ELSE url.page, LAMBDA page :
             JSArray(SubSeq(body.arr, (page - 1) * perPage + 1,
                            Min(page * perPage, Len(body.arr))))))

\* response.json(): a promise for the body.
json(body) == [type |-> "promise", settles |-> body]

\* await of a value: what a promise settles to, any other value itself.
Await(value) == IF value.type = "promise" THEN value.settles ELSE value

\* Service.mjs:263-281, one pass of the while loop: the request, and what
\* is done with response.json(), which is not awaited.
ApiRequest(ok) ==
    /\ listing.pc = "request"
    /\ IF ~ok
       THEN listing' = [listing EXCEPT !.pc = "threw", !.requests = @ + 1]
       ELSE \E pageResult \in {json(Respond(listing.body, listing.url))} :
              IF isArray(pageResult)
              THEN listing' =
                     [listing EXCEPT
                        !.requests = @ + 1,
                        !.result = JSArray((IF listing.result = JSNull THEN <<>>
                                            ELSE listing.result.arr) \o pageResult.arr),
                        !.url = [page |-> IF Len(pageResult.arr) < PerPage
                                          THEN (IF listing.result = JSNull THEN 1 ELSE @.page)
                                          ELSE (IF listing.result = JSNull THEN 1 ELSE @.page) + 1,
                                 per_page |-> PerPage],
                        !.pc = IF Len(pageResult.arr) < PerPage THEN "returned" ELSE @]
              ELSE listing' = [listing EXCEPT !.requests = @ + 1,
                                              !.result = pageResult,
                                              !.pc = "returned"]
    /\ UNCHANGED <<parseVars, cfg, files, svc, px, srv, resolve, portParse, registries, naming>>

\* await api(...), Service.mjs:293, 296 and 313: the caller has the value.
ApiAwaited ==
    /\ listing.pc = "returned"
    /\ listing' = [listing EXCEPT !.pc = "awaited", !.value = Await(listing.result)]
    /\ UNCHANGED <<parseVars, cfg, files, svc, px, srv, resolve, portParse, registries, naming>>

ListingInit ==
    /\ \E body \in Bodies :
         listing = [pc |-> "request", body |-> body, url |-> [page |-> 0, per_page |-> 0],
                    result |-> JSNull, value |-> JSNull, requests |-> 0]
    /\ naming = IdleNaming
    /\ resolve = IdleResolve
    /\ portParse = IdlePortParse
    /\ registries = IdleRegistries
    /\ cfg = IdleCfg
    /\ files = NoFiles
    /\ svc = IdleSvc
    /\ px = IdlePx
    /\ srv = IdleSrv
    /\ content = <<>>
    /\ ctxReserved = FALSE
    /\ throwOnUndefined = TRUE
    /\ pState = "idle"
    /\ parts = <<>>
    /\ rendered = <<>>
    /\ completed = <<>>
    /\ pResult = Null
    /\ pError = NoError

ListingNext == \E ok \in BOOLEAN : ApiRequest(ok)
                   \/ ApiAwaited

SpecListing == ListingInit /\ [][ListingNext]_vars

\* C25: the caller of api has every item the registry lists, in the order of
\* the registry, after one request per page of 30 up to the first page with
\* fewer than 30.
C25_ListingIsComplete ==
    (listing.pc = "awaited" /\ isArray(listing.body)) =>
        /\ listing.value = listing.body
        /\ listing.requests = (Len(listing.body.arr) \div PerPage) + 1

\* A step of MergeProxy: one more proxy string of the service is merged.
MergeStep ==
    /\ portParse.pc = "proxies"
    /\ portParse'.pc = "proxies"
    /\ portParse'.k = portParse.k + 1

\* C26: merging a proxy string removes no descriptor and changes no
\* container port; where a descriptor has the container port of the proxy,
\* one such descriptor alone is changed, its host and proxyPort only to a
\* value the proxy declares, and otherwise one descriptor of the proxy's
\* values is appended to the unchanged ones.
C26_MergeKeepsDescriptors ==
    [][MergeStep =>
        LET old == portParse.ports
            new == portParse'.ports
            d == portParse'.details
        IN  /\ Len(new) >= Len(old)
            /\ \A j \in 1..Len(old) : new[j].container = old[j].container
            /\ IF \E j \in 1..Len(old) : old[j].container = d.containerPort
               THEN /\ Len(new) = Len(old)
                    /\ \E k \in 1..Len(old) :
                         /\ old[k].container = d.containerPort
                         /\ \A j \in 1..Len(old) : j # k => new[j] = old[j]
                         /\ new[k].host # old[k].host =>
                                Truthy(d.hostPort) /\ new[k].host = d.hostPort
                         /\ new[k].proxyPort # old[k].proxyPort =>
                                Truthy(d.proxyPort) /\ new[k].proxyPort = d.proxyPort
               ELSE /\ Len(new) = Len(old) + 1
                    /\ SubSeq(new, 1, Len(old)) = old
                    /\ new[Len(new)].container = d.containerPort
                    /\ new[Len(new)].host = d.hostPort
                    /\ new[Len(new)].proxyPort = d.proxyPort]_vars

\* Of two descriptors the second has the proxy's container port and has got
\* the proxy's host port, the first is as it was parsed.
C26_Witness ==
    /\ portParse.pc = "proxies"
    /\ portParse.k = 2
    /\ Len(portParse.service.ports) = 2
    /\ Len(portParse.ports) = 2
    /\ portParse.ports[1] = StaticPort(portParse.service.ports[1])
    /\ portParse.ports[2].details.defined
    /\ Truthy(portParse.details.hostPort)
    /\ portParse.ports[2].host = portParse.details.hostPort
    /\ portParse.ports[2].host # StaticPort(portParse.service.ports[2]).host

-----------------------------------------------------------------------------
(* The upstreams and their backends, create_proxy_config.mjs:88-121 *)

\* The upstreams have been collected from every server.
Collected == px.pc = "ports"

NonNull(v) == v \notin {Null, Undefined}

\* The (server, image, descriptor) of the configuration, each with the key
\* its sanitized image name and container port give.
KeyedDescriptors ==
    UNION {With(ImagesOfServer(s), LAMBDA images :
               UNION {{[server |-> s, image |-> k, descriptor |-> d,
                        proxyPort |-> images[k].ports[d].proxyPort,
                        key |-> hostname(images[k].name \o <<"-">>
                                            \o ToText(images[k].ports[d].container))] :
                          d \in 1..Len(images[k].ports)} :
                         k \in 1..Len(images)}) :
              s \in Servers}

\* Every upstream listed for a server has a backend on that server.
BackendOnServer ==
    With(px.maps.upstreams, LAMBDA upstreams :
        \A b \in 1..Len(px.maps.byServer) :
           \A n \in 1..Len(px.maps.byServer[b].upstreams) :
              \E u \in 1..Len(upstreams) :
                 /\ upstreams[u].name = px.maps.byServer[b].upstreams[n]
                 /\ \E c \in 1..Len(upstreams[u].servers) :
                       upstreams[u].servers[c].host = ServerNamed(px.maps.byServer[b].name).ipv4)

\* One upstream per key of a descriptor whose proxyPort is as Proxied says,
\* with one backend per (server, image, descriptor) of the key.
UpstreamsOf(Proxied(_)) ==
    With(px.maps.upstreams, LAMBDA upstreams :
    With({x \in KeyedDescriptors : Proxied(x.proxyPort)}, LAMBDA proxied :
        /\ {upstreams[u].name : u \in 1..Len(upstreams)} = {x.key : x \in proxied}
        /\ \A u, v \in 1..Len(upstreams) : upstreams[u].name = upstreams[v].name => u = v
        /\ \A u \in 1..Len(upstreams) :
              Len(upstreams[u].servers)
                 = Cardinality({x \in proxied : x.key = upstreams[u].name})))

\* C27 (as claimed): a descriptor has a backend if and only if its proxyPort
\* is not null; the descriptors of one key share one upstream, which has one
\* backend for each of them, and every upstream of a server has a backend on
\* that server.
C27_BackendIffNonNullProxyPort ==
    /\ Collected => UpstreamsOf(NonNull)
    /\ px.pc \in {"ports", "conf", "disable", "apply", "done"} => BackendOnServer

\* C27 (amended): a descriptor has a backend if and only if its proxyPort is
\* neither null nor the empty string; the descriptors of one key share one
\* upstream, which has one backend for each of them, and every upstream of a
\* server has a backend on that server.
C27_BackendIffProxyPort ==
    /\ Collected => UpstreamsOf(Truthy)
    /\ px.pc \in {"ports", "conf", "disable", "apply", "done"} => BackendOnServer

\* C27, reached: an upstream with the backends of two servers, and a
\* descriptor without proxyPort that has none.
C27_Witness ==
    /\ Collected
    /\ \E u \in 1..Len(px.maps.upstreams) :
          \E b, c \in 1..Len(px.maps.upstreams[u].servers) :
             px.maps.upstreams[u].servers[b].host # px.maps.upstreams[u].servers[c].host
    /\ \E s \in Servers : \E p \in ProxyPortsOf(s) : ~Truthy(p)

\* The fields a constructor takes from its arguments without a default.
RequiredServerFields == {"name", "serverType", "sshKeys", "services"}
RequiredServiceFields == {"name", "images"}

\* C28: a call of new Server, new Service or new SSHKey that throws leaves
\* every registry as it was, and every registered instance has required
\* fields that passed the tests of their setters (a key: a name, and a
\* private or a public key).
C28_FailedConstructorRegistersNothing ==
    /\ [][(/\ registries.pc = "ready"
           /\ registries'.calls = registries.calls + 1
           /\ registries'.last.call \in {"Server", "Service", "SSHKey"}
           /\ registries'.last.threw) =>
              /\ registries'.Server = registries.Server
              /\ registries'.Service = registries.Service
              /\ registries'.SSHKey = registries.SSHKey
              /\ registries'.Volume = registries.Volume]_vars
    /\ [](registries.pc = "ready" =>
            /\ \A k \in 1..Len(registries.Server) : \A field \in RequiredServerFields :
                  Accepted(ServerSetters, field, registries.Server[k][field])
            /\ \A k \in 1..Len(registries.Service) : \A field \in RequiredServiceFields :
                  Accepted(ServiceSetters, field, registries.Service[k][field])
            /\ \A k \in 1..Len(registries.SSHKey) :
                  /\ Accepted(SSHKeySetters, "name", registries.SSHKey[k].name)
                  /\ HasAKey(registries.SSHKey[k]))

\* C28, reached: new Server has thrown after a server and a service were
\* registered.
C28_Witness ==
    /\ registries.pc = "ready"
    /\ registries.last.call = "Server"
    /\ registries.last.threw
    /\ Len(registries.Server) = 1
    /\ Len(registries.Service) = 1

\* C29: when createDockerFile of a server has written its
\* docker-compose.yml, the host ports that are set in the descriptors of the
\* server's images differ from one another, those of two descriptors of one
\* image too.
C29_HostPortsPairwiseDistinct ==
    \A s \in Servers :
        (svc.task[s] \notin {"start", "images", "checked", "failed"}
            /\ exists(files, DockerComposeOf(s))) =>
            \A i, j \in 1..Len(svc.images[s]) :
               \A d \in 1..Len(svc.images[s][i].ports), e \in 1..Len(svc.images[s][j].ports) :
                  (/\ <<i, d>> # <<j, e>>
                   /\ Truthy(svc.images[s][i].ports[d].host)) =>
                      svc.images[s][i].ports[d].host # svc.images[s][j].ports[e].host

-----------------------------------------------------------------------------
(* resource, src/utils/stringUtils.mjs:58-64, on the names of two servers *)

\* A name has at most MaxNameLen characters.
MaxNameLen == 4

NameInputs == StrUpTo({"a", "0", "-"}, MaxNameLen)

RECURSIVE UnderscoreNonAlphanumeric(_)
UnderscoreNonAlphanumeric(s) ==
    IF s = <<>> THEN <<>>
    ELSE <<IF Head(s) \in LowerCaseLetters \cup UpperCaseLetters \cup Digits
           THEN Head(s) ELSE "_">> \o UnderscoreNonAlphanumeric(Tail(s))

\* stringUtils.mjs:58-64, resource
resource(name) ==
    With(TrimEnd(TrimStart(CollapseRuns(UnderscoreNonAlphanumeric(name), "_"), "_"), "_"),
         LAMBDA trimmed : [k \in 1..Len(trimmed) |-> toLowerCase(trimmed[k])])

\* part_003:206-210, the setter of the name of each of the two servers.
ValidateNames ==
    /\ naming.pc = "start"
    /\ naming' = [naming EXCEPT
                     !.pc = IF \A k \in 1..2 : ValidHostname(naming.names[k])
                            THEN "valid" ELSE "threw"]
    /\ UNCHANGED <<parseVars, cfg, files, svc, px, srv, resolve, portParse, registries, listing>>

\* part_003:158 and part_005:100, the resource name of each server.
MapResources ==
    /\ naming.pc = "valid"
    /\ naming' = [naming EXCEPT
                     !.pc = "mapped",
                     !.resources = [k \in 1..2 |-> resource(naming.names[k])]]
    /\ UNCHANGED <<parseVars, cfg, files, svc, px, srv, resolve, portParse, registries, listing>>

NamingInit ==
    /\ \E first, second \in NameInputs :
         naming = [pc |-> "start", names |-> <<first, second>>, resources |-> <<>>]
    /\ listing = IdleListing
    /\ resolve = IdleResolve
    /\ portParse = IdlePortParse
    /\ registries = IdleRegistries
    /\ cfg = IdleCfg
    /\ files = NoFiles
    /\ svc = IdleSvc
    /\ px = IdlePx
    /\ srv = IdleSrv
    /\ content = <<>>
    /\ ctxReserved = FALSE
    /\ throwOnUndefined = TRUE
    /\ pState = "idle"
    /\ parts = <<>>
    /\ rendered = <<>>
    /\ completed = <<>>
    /\ pResult = Null
    /\ pError = NoError

NamingNext == ValidateNames \/ MapResources

SpecNaming == NamingInit /\ [][NamingNext]_vars

\* C30: two different names that pass the test of the setter of a server's
\* name have different resource names.
C30_DistinctNamesDistinctResources ==
    (naming.pc = "mapped" /\ naming.names[1] # naming.names[2]) =>
        naming.resources[1] # naming.resources[2]

=============================================================================
